---- MODULE Spec2Model ----
(***************************************************************************)
(* Verification model of the dusk-blockchain consensus core:               *)
(*   - the chain driver (package chain: Chain.AcceptBlock, onAcceptBlock,  *)
(*     handleCertificateMessage, requestRoundResults, RebuildChain),       *)
(*   - the reduction committee quorum,                                     *)
(*   - the reputation moderator,                                           *)
(*   - the signature-set collector of the notary,                          *)
(*   - the second-reduction phase (secondstep.Phase.Run),                  *)
(*   - the read loop of a peer,                                            *)
(*   - the topic listener of the event bus,                                *)
(*   - the encoding of the block certificate,                              *)
(*   - the score generator of the block generation component,              *)
(*   - the voucher client (ConnectToVoucher),                              *)
(*   - the membership lookup of the reduction committee,                   *)
(*   - the Disconnect of a peer called from several goroutines,            *)
(*   - the preprocessor registry of the event bus.                         *)
(* Each component has its own specification over a shared variable list;   *)
(* the variables of the other components stay at their initial values.     *)
(***************************************************************************)
EXTENDS Integers, Sequences, FiniteSets, TLC

\* ------------------------------------------------------------------------
\* Bounds of the model
\* ------------------------------------------------------------------------
\* heights of the blocks peers and consensus hand to the chain
MaxHeight == 2
\* the handlers stop being offered once the bus log holds this many events
MaxBus == 3
\* round-update goroutines spawned and not yet scheduled
MaxPending == 1
\* largest height difference handed to the sync counter
MaxCounter == 2
\* provisioners handed to the reduction committee
MaxMembers == 70
\* absentee notifications handled for one key within one round
MaxStrikeCount == 4
\* messages waiting in a channel of the moderator
MaxChan == 2
\* rounds of the events handed to the signature-set collector
MaxRound == 2
\* events the collector holds for future rounds
MaxQueued == 2
\* largest quorum the committee of the collector reports
MaxQuorum == 3
\* events waiting in the queue when the second-reduction phase starts
MaxPhaseQueue == 2
\* largest quorum of the committee of the second-reduction phase
MaxPhaseQuorum == 2

\* cells of the payload of one message sent to the peer
MaxPayload == 1

\* messages published on the topic of the listener
MaxPublished == 3
\* capacity of the channel the listener subscribes to its topic
MaxMsgChan == 2

\* public keys in one list of a certificate
MaxPubKeys == 2

\* rounds of the round updates handed to the score generator
MaxGenRound == 2
\* Score messages gossiped before the generator is handed nothing more
MaxScores == 2

\* keepalive writes of the ping loop of the voucher client
MaxKeepalives == 3

\* committees in the list of the reduction committee when IsMember is called
MaxCommittees == 3

\* preprocessors registered on the topic over the life of the registry
MaxRegistered == 3

\* ------------------------------------------------------------------------
\* Variables
\* ------------------------------------------------------------------------
VARIABLES
  \* chain driver: the fields of Chain
  prevBlock, store, p, intermediateBlock, lastCertificate, lastCommittee,
  counter,
  \* the publications on StopConsensus, AcceptedBlock and RoundUpdate, in
  \* order; the last publication on Gossip and on IntermediateBlock (the last
  \* call of ClearWalletDatabase is kept with the latter)
  bus, gossip, mempool,
  \* spawned sendRoundUpdate goroutines; the position of the Listen loop and
  \* of the Block-topic callback with their locals; a panic; the result of the
  \* AcceptBlock or of the requestRoundResults that the last step ended
  pending, listenPc, listenHash, cbPc, cbCause, halted, ret

chainVars == <<prevBlock, store, p, intermediateBlock, lastCertificate,
               lastCommittee, counter, bus, gossip, mempool, pending,
               listenPc, listenHash, cbPc, cbCause, halted, ret>>

VARIABLES
  \* reduction committee: the provisioners and the last result of Quorum
  members, quorumRet

quorumVars == <<members, quorumRet>>

VARIABLES
  \* moderator: the strikes map, its two channels (roundChan holds round
  \* numbers nobody reads, so their count), the RemoveProvisioner publications
  \* per key since the last round update, the absentee notifications handled
  \* per key since the last round update, and the absentee notifications per
  \* key that were handled between the two round updates before; for each
  \* notification waiting in absenteeChan, the number of round updates
  \* published after it (counted up to MaxChan + 1)
  strikes, roundChan, absenteeChan, removeProvisioner, handled, cleared,
  updatesSince

moderatorVars ==
  <<strikes, roundChan, absenteeChan, removeProvisioner, handled, cleared,
    updatesSince>>

VARIABLES
  \* signature-set collector: committee.Collector (CurrentRound and
  \* StepEventCollector), futureRounds, what was sent on RoundChan and how
  \* many events on RepropagationChannel, the committee's quorum, and the
  \* event Collect was last called with
  collector, quorum, collected

collectorVars == <<collector, quorum, collected>>

VARIABLES
  \* second-reduction phase: the position of Run; AmMember(round, step); the
  \* input of Fn; the events of queue.GetEvents; the votes of the aggregator
  \* and the quorum of the committee; what the phase gossiped; the calls of
  \* IncreaseTimeout; whether timeoutChan and ctx.Done() are ready; what Run
  \* returned and the statement it returned from; what handler.IsMember
  \* answered in the latest turn of Run's loops, if that turn asked; whether
  \* a receive from timeoutChan was made or left to a goroutine
  phPc, amMember, firstStepVotesMsg, phQueue, aggregator, phQuorum, phGossip,
  timeoutIncreases, timerFired, cancelled, phRet, phExit, isMember,
  timeoutReceived

phaseVars ==
  <<phPc, amMember, firstStepVotesMsg, phQueue, aggregator, phQuorum, phGossip,
    timeoutIncreases, timerFired, cancelled, phRet, phExit, isMember,
    timeoutReceived>>


VARIABLES
  \* peer: the bytes of Conn not read yet, in cells of MessageHeaderSize
  \* bytes; whether the remote end closed Conn; the Disconnected flag; the
  \* position of ReadLoop and the header it decoded last; the message the
  \* remote end sent last and what ReadLoop published since it was sent;
  \* whether the message sent before that one failed a test of ReadLoop
  conn, connClosed, Disconnected, readPc, hdr, sent, peerBus, prevRejected

peerVars ==
  <<conn, connClosed, Disconnected, readPc, hdr, sent, peerBus, prevRejected>>


VARIABLES
  \* topic listener: the two channels and whether the bus still holds their
  \* subscriptions; whether Accept was given processors; the position of
  \* Accept; the buffers handed to Collect; the messages published so far
  \* (a message is the number of its publication), those of them the bus put
  \* on msgChan, those a processor rejected; whether quit was published
  msgChan, quitChan, msgSubscribed, quitSubscribed, processors, accPc,
  delivered, pubCount, enqueued, rejected, quitPublished

listenerVars ==
  <<msgChan, quitChan, msgSubscribed, quitSubscribed, processors, accPc,
    delivered, pubCount, enqueued, rejected, quitPublished>>


VARIABLES
  \* certificate codec: the certificate handed to Encode, the bytes written,
  \* what Decode made of them, and how far the round trip got
  certificate, written, decoded, codecPc

codecVars == <<certificate, written, decoded, codecPc>>


VARIABLES
  \* score generator: its round and step (a uint8); the bid list; the round
  \* updates waiting on roundChannel; what it published; the position of the
  \* goroutine of Listen and of the goroutine of Accept that calls Collect,
  \* and the step each of them read for its increment; whether Collect wrote
  \* the step since updateRound set it; what updateRound's last call returned
  currentRound, currentStep, bidList, roundChannel, genGossip, listenSt,
  collectSt, listenRead, collectRead, stepTouched, genRet

generatorVars ==
  <<currentRound, currentStep, bidList, roundChannel, genGossip, listenSt,
    collectSt, listenRead, collectRead, stepTouched, genRet>>


VARIABLES
  \* voucher client: General.Network, whether Seeder.Fixed and
  \* Seeder.Addresses hold an entry; the position of ConnectToVoucher; the
  \* reads and writes made on the connection, each with its outcome; the
  \* challenge the seeder sent and the response written; the state of the
  \* ping goroutine; what ConnectToVoucher returned
  network, fixedNetwork, seeders, vPc, wire, challenge, response, pinger,
  voucherRet

voucherVars ==
  <<network, fixedNetwork, seeders, vPc, wire, challenge, response, pinger,
    voucherRet>>


VARIABLES
  \* reduction committee: the length of r.committees; the arguments of the
  \* call of PregenerateCommittees made by the last call of IsMember, the
  \* step of that call and how it ended
  committees, pregenerated, isMemberStep, isMemberRet

committeeVars ==
  <<committees, pregenerated, isMemberStep, isMemberRet>>


VARIABLES
  \* Peer.Disconnect: the position of each goroutine in its call; the value
  \* of p.Disconnected; how often Detector.Quit, close(p.quitch) and
  \* Conn.Close were executed; whether a close of the closed quitch panicked
  disconnectPc, disconnectedFlag, detectorQuits, quitchCloses, connCloses,
  closePanic

disconnectVars ==
  <<disconnectPc, disconnectedFlag, detectorQuits, quitchCloses, connCloses,
    closePanic>>


VARIABLES
  \* preprocessor registry, one topic: the backing array of
  \* p.preprocessors[topic] (ids of the processors, 0 for a free slot) and
  \* the length of the slice; the id given to the next processor; the holder
  \* of the lock and the slot RemoveProcessor is moving into; the position
  \* of Preprocess, the length of its slice pp, whether pp still has the
  \* registry's backing array and the array it has otherwise, its index in
  \* the loop, the processors it applied, those registered when it took pp,
  \* and whether a processor returned an error
  mem, regLen, nextId, rwLock, shiftAt, prePc, ppLen, ppAlias, ppOwn, ppIdx,
  applied, snapshot, preErr

registryVars ==
  <<mem, regLen, nextId, rwLock, shiftAt, prePc, ppLen, ppAlias, ppOwn, ppIdx,
    applied, snapshot, preErr>>

vars == <<chainVars, quorumVars, moderatorVars, collectorVars, phaseVars,
    peerVars, listenerVars, codecVars, generatorVars, voucherVars,
    committeeVars, disconnectVars, registryVars>>

\* what the steps of one component leave alone
otherThanChain == <<quorumVars, moderatorVars, collectorVars, phaseVars,
    peerVars, listenerVars, codecVars, generatorVars, voucherVars,
    committeeVars, disconnectVars, registryVars>>
otherThanQuorum == <<chainVars, moderatorVars, collectorVars, phaseVars,
    peerVars, listenerVars, codecVars, generatorVars, voucherVars,
    committeeVars, disconnectVars, registryVars>>
otherThanModerator == <<chainVars, quorumVars, collectorVars, phaseVars,
    peerVars, listenerVars, codecVars, generatorVars, voucherVars,
    committeeVars, disconnectVars, registryVars>>
otherThanCollector == <<chainVars, quorumVars, moderatorVars, phaseVars,
    peerVars, listenerVars, codecVars, generatorVars, voucherVars,
    committeeVars, disconnectVars, registryVars>>
otherThanPhase == <<chainVars, quorumVars, moderatorVars, collectorVars,
    peerVars, listenerVars, codecVars, generatorVars, voucherVars,
    committeeVars, disconnectVars, registryVars>>
otherThanPeer == <<chainVars, quorumVars, moderatorVars, collectorVars,
    phaseVars, listenerVars, codecVars, generatorVars, voucherVars,
    committeeVars, disconnectVars, registryVars>>
otherThanListener == <<chainVars, quorumVars, moderatorVars, collectorVars,
    phaseVars, peerVars, codecVars, generatorVars, voucherVars,
    committeeVars, disconnectVars, registryVars>>
otherThanCodec == <<chainVars, quorumVars, moderatorVars, collectorVars,
    phaseVars, peerVars, listenerVars, generatorVars, voucherVars,
    committeeVars, disconnectVars, registryVars>>
otherThanGenerator == <<chainVars, quorumVars, moderatorVars, collectorVars,
    phaseVars, peerVars, listenerVars, codecVars, voucherVars, committeeVars,
    disconnectVars, registryVars>>
otherThanVoucher == <<chainVars, quorumVars, moderatorVars, collectorVars,
    phaseVars, peerVars, listenerVars, codecVars, generatorVars,
    committeeVars, disconnectVars, registryVars>>
otherThanReducers == <<chainVars, quorumVars, moderatorVars, collectorVars,
    phaseVars, peerVars, listenerVars, codecVars, generatorVars, voucherVars,
    disconnectVars, registryVars>>
otherThanDisconnect == <<chainVars, quorumVars, moderatorVars, collectorVars,
    phaseVars, peerVars, listenerVars, codecVars, generatorVars, voucherVars,
    committeeVars, registryVars>>
otherThanRegistry == <<chainVars, quorumVars, moderatorVars, collectorVars,
    phaseVars, peerVars, listenerVars, codecVars, generatorVars, voucherVars,
    committeeVars, disconnectVars>>

\* ------------------------------------------------------------------------
\* Chain driver: data
\* ------------------------------------------------------------------------
\* blocks of one height that differ in their hash
Variants == {0}
HashOf(h, v) == 2 * h + v
NoHash == 0 - 1

\* certificates: "none" is the nil pointer, "empty" is block.EmptyCertificate()
ValidCert == "cA"
BadCert == "bad"
Certs == {ValidCert, BadCert}
NilCert == "none"
EmptyCertificate == "empty"

\* the BLS keys of the committee that signed a certificate
CommitteeOf(cert) == IF cert = ValidCert THEN 1 ELSE 2
EmptyCommittee == 0

NilBlock == [height |-> 0 - 1, hash |-> NoHash, prev |-> NoHash, cert |-> NilCert]
Genesis == [height |-> 0, hash |-> 0, prev |-> NoHash, cert |-> NilCert]

\* a block at height h (variant v) built on the first variant of height h-1
MkBlock(h, v, c) ==
  [height |-> h, hash |-> HashOf(h, v), prev |-> HashOf(h - 1, 0), cert |-> c]

PeerBlocks == {MkBlock(h, v, c) : h \in 1..MaxHeight, v \in Variants, c \in Certs}

mockFirstIntermediateBlock(prevHeader) ==
  [height |-> 1, hash |-> HashOf(1, 0), prev |-> prevHeader.hash, cert |-> NilCert]

NewProvisioners == 0

\* bus events
Ev(topic, val, tag) == [topic |-> topic, val |-> val, tag |-> tag]
NoEv == Ev("none", 0, 0)
\* StopConsensus carries no payload; the log notes which handler published it
StopConsensus(handler) == Ev("StopConsensus", IF handler = "RebuildChain" THEN 1 ELSE 0, 0)

\* ------------------------------------------------------------------------
\* Chain driver: collaborators
\* ------------------------------------------------------------------------
SanityCheckBlock(prev, blk) ==
  /\ blk.height = prev.height + 1
  /\ blk.prev = prev.hash

CheckBlockCertificate(provisioners, blk) == blk.cert = ValidCert

\* the provisioners returned by the executor for the block at this height
ExecuteStateTransition(blk) == blk.height

\* chainsync.Counter
IsSyncing(c) == c > 0
decrement(c) == IF c > 0 THEN c - 1 ELSE c

\* what the executor and the loader answer to one AcceptBlock
Outcomes == {"ok", "executor", "append"}

\* ------------------------------------------------------------------------
\* Chain driver: AcceptBlock
\* ------------------------------------------------------------------------
\* the part of the chain AcceptBlock reads and writes
ChainState == [prevBlock |-> prevBlock, p |-> p, store |-> store, bus |-> bus,
               gossip |-> gossip, counter |-> counter, err |-> "ok"]

advertiseBlock(b) == Ev("Inv", b.height, b.hash)

\* AcceptBlock with the assignment c.prevBlock = blk left out
AcceptBlockKeepsTip(st, blk, outcome) ==
  IF ~SanityCheckBlock(st.prevBlock, blk) THEN [st EXCEPT !.err = "sanity"]
  ELSE IF ~CheckBlockCertificate(st.p, blk) THEN [st EXCEPT !.err = "certificate"]
  ELSE IF outcome = "executor" THEN [st EXCEPT !.err = "executor"]
  ELSE LET cached == [st EXCEPT !.p = ExecuteStateTransition(blk)] IN
    IF outcome = "append" THEN [cached EXCEPT !.err = "append"]
    ELSE [cached EXCEPT
            !.store = Append(@, blk),
            !.gossip = advertiseBlock(blk),
            !.bus = Append(@, Ev("AcceptedBlock", blk.height, blk.hash)),
            !.counter = decrement(@),
            !.err = "ok"]

\* Chain.AcceptBlock under c.mu: the checks, the state transition, the append,
\* the advertisement and the AcceptedBlock publication (whose subscriber, the
\* sync counter, is decremented inside Publish).
AcceptBlock(st, blk, outcome) ==
  IF ~SanityCheckBlock(st.prevBlock, blk) THEN [st EXCEPT !.err = "sanity"]
  ELSE IF ~CheckBlockCertificate(st.p, blk) THEN [st EXCEPT !.err = "certificate"]
  ELSE IF outcome = "executor" THEN [st EXCEPT !.err = "executor"]
  ELSE LET cached == [st EXCEPT !.p = ExecuteStateTransition(blk)] IN
    IF outcome = "append" THEN [cached EXCEPT !.err = "append"]
    ELSE [cached EXCEPT
            !.store = Append(@, blk),
            !.gossip = advertiseBlock(blk),
            !.prevBlock = blk,
            !.bus = Append(@, Ev("AcceptedBlock", blk.height, blk.hash)),
            !.counter = decrement(@),
            !.err = "ok"]

\* a goroutine running sendRoundUpdate, with the block acceptance that spawned it
\* (the index of its AcceptedBlock in the log) and the height of the
\* intermediate block installed by the handler that spawned it
Goroutine(origin, cause, installed) ==
  [origin |-> origin, cause |-> cause, installed |-> installed]

\* the log has room for the publications of one more handler
LogRoom == Len(bus) < MaxBus

\* a handler that spawns a goroutine starts while fewer than MaxPending wait
Room == LogRoom /\ Len(pending) < MaxPending

\* ------------------------------------------------------------------------
\* Chain driver: the handlers
\* ------------------------------------------------------------------------
\* chainsync: the synchronizer saw a higher block and starts a sync
StartSyncing(n) ==
  /\ ~halted /\ counter = 0
  /\ counter' = n
  /\ ret' = "none"
  /\ UNCHANGED <<prevBlock, store, p, intermediateBlock, lastCertificate,
                 lastCommittee, bus, gossip, mempool, pending, listenPc,
                 listenHash, cbPc, cbCause, halted>>

\* onAcceptBlock without the test of the sync counter
onAcceptBlockNotSyncing(blk, outcome) ==
  /\ ~halted /\ cbPc = "idle" /\ Room
  /\ LET stopped == [ChainState EXCEPT !.bus = Append(@, StopConsensus("onAcceptBlock"))]
         r == AcceptBlock(stopped, blk, outcome)
         waits == r.err = "ok" /\ ~IsSyncing(r.counter)
     IN /\ prevBlock' = r.prevBlock
        /\ store' = r.store
        /\ p' = r.p
        /\ counter' = r.counter
        /\ bus' = r.bus
        /\ gossip' = IF waits
                     THEN Ev("GetRoundResults", blk.height + 1, 0)
                     ELSE r.gossip
        /\ cbPc' = IF waits THEN "RoundResults" ELSE "idle"
        /\ cbCause' = IF waits THEN Len(r.bus) ELSE cbCause
        /\ ret' = r.err
  /\ UNCHANGED <<intermediateBlock, lastCertificate, lastCommittee, mempool,
                 pending, listenPc, listenHash, halted>>

\* onAcceptBlock up to the point where it waits for the round results
onAcceptBlock(blk, outcome) ==
  /\ ~halted /\ cbPc = "idle" /\ Room
  /\ IF ~IsSyncing(counter)
     THEN /\ ret' = "none"
          /\ UNCHANGED <<prevBlock, store, p, counter, bus, gossip, cbPc, cbCause>>
     ELSE LET stopped == [ChainState EXCEPT !.bus = Append(@, StopConsensus("onAcceptBlock"))]
              r == AcceptBlock(stopped, blk, outcome)
              waits == r.err = "ok" /\ ~IsSyncing(r.counter)
          IN /\ prevBlock' = r.prevBlock
             /\ store' = r.store
             /\ p' = r.p
             /\ counter' = r.counter
             /\ bus' = r.bus
             /\ gossip' = IF waits
                          THEN Ev("GetRoundResults", blk.height + 1, 0)
                          ELSE r.gossip
             /\ cbPc' = IF waits THEN "RoundResults" ELSE "idle"
             /\ cbCause' = IF waits THEN Len(r.bus) ELSE cbCause
             /\ ret' = r.err
  /\ UNCHANGED <<intermediateBlock, lastCertificate, lastCommittee, mempool,
                 pending, listenPc, listenHash, halted>>

\* the checks requestRoundResults makes on one response
RoundResultsOk(cm, validateOk) ==
  /\ SanityCheckBlock(prevBlock, cm.block)
  /\ validateOk
  /\ CheckBlockCertificate(p, [cm.block EXCEPT !.cert = cm.cert])

\* what requestRoundResults returns for a response it takes; txsOk says
\* whether the transactions of the block of the response are valid
RoundResults(txsOk) ==
  IF txsOk THEN "results, valid transactions" ELSE "results, invalid transactions"

\* requestRoundResults: one message of roundResultsChan; a good one ends the
\* wait and onAcceptBlock installs it and spawns the round update. The state
\* validation is run on the transactions of c.prevBlock (validateOk), not on
\* those of the block of the response (txsOk)
requestRoundResultsRecv(cm, txsOk, validateOk) ==
  /\ ~halted /\ cbPc = "RoundResults"
  /\ ret' = IF RoundResultsOk(cm, validateOk) THEN RoundResults(txsOk) ELSE "none"
  /\ IF RoundResultsOk(cm, validateOk)
     THEN /\ intermediateBlock' = [cm.block EXCEPT !.cert = cm.cert]
          /\ lastCertificate' = cm.cert
          /\ pending' = Append(pending, Goroutine("sync", cbCause, cm.block.height))
          /\ cbPc' = "idle"
          /\ cbCause' = 0
     ELSE UNCHANGED <<intermediateBlock, lastCertificate, pending, cbPc, cbCause>>
  /\ UNCHANGED <<prevBlock, store, p, lastCommittee, counter, bus, gossip,
                 mempool, listenPc, listenHash, halted>>

\* a timer branch after which onAcceptBlock goes on to restart consensus
requestRoundResultsTimeoutRestarts ==
  /\ ~halted /\ cbPc = "RoundResults"
  /\ cbPc' = "idle"
  /\ cbCause' = 0
  /\ ret' = "request timeout"
  /\ pending' = Append(pending, Goroutine("sync", cbCause, intermediateBlock.height))
  /\ UNCHANGED <<prevBlock, store, p, intermediateBlock, lastCertificate,
                 lastCommittee, counter, bus, gossip, mempool,
                 listenPc, listenHash, halted>>

\* requestRoundResults: the 5 s timer fires and onAcceptBlock returns the error
requestRoundResultsTimeout ==
  /\ ~halted /\ cbPc = "RoundResults"
  /\ cbPc' = "idle"
  /\ cbCause' = 0
  /\ ret' = "request timeout"
  /\ UNCHANGED <<prevBlock, store, p, intermediateBlock, lastCertificate,
                 lastCommittee, counter, bus, gossip, mempool, pending,
                 listenPc, listenHash, halted>>

\* handleCertificateMessage up to the GetCandidate call on the RPC bus
handleCertificateMessage(cMsg) ==
  /\ ~halted /\ listenPc = "idle" /\ Room
  /\ lastCertificate' = cMsg.cert
  /\ lastCommittee' = cMsg.committee
  /\ listenPc' = "GetCandidate"
  /\ listenHash' = cMsg.hash
  /\ ret' = "none"
  /\ UNCHANGED <<prevBlock, store, p, intermediateBlock, counter, bus, gossip,
                 mempool, pending, cbPc, cbCause, halted>>

\* finalizeIntermediateBlock: the certificate is stamped on the intermediate
\* block, which is then accepted
finalizeIntermediateBlock(cert, outcome) ==
  AcceptBlock(ChainState, [intermediateBlock EXCEPT !.cert = cert], outcome)

\* the end of handleCertificateMessage with the error of the finalization
\* ignored: the candidate is installed and the round update spawned regardless
InstallCandidateUnchecked(r, cm) ==
  [intermediateBlock |-> cm.block,
   mempool |-> Ev("IntermediateBlock", cm.block.height, cm.block.hash),
   pending |-> Append(pending,
                 Goroutine("certificate", Len(r.bus), cm.block.height))]

\* the end of handleCertificateMessage, given the result r of finalizing the
\* intermediate block: the block stays stamped; on success the candidate is
\* installed, announced and a round update is spawned
InstallCandidate(r, cm) ==
  IF r.err # "ok"
  THEN [intermediateBlock |-> [intermediateBlock EXCEPT !.cert = cm.cert],
        mempool |-> mempool,
        pending |-> pending]
  ELSE [intermediateBlock |-> cm.block,
        mempool |-> Ev("IntermediateBlock", cm.block.height, cm.block.hash),
        pending |-> Append(pending,
                      Goroutine("certificate", Len(r.bus), cm.block.height))]

\* handleCertificateMessage once the GetCandidate call has returned
\* (rpcOk = FALSE: the call failed or timed out)
handleCertificateMessageResume(rpcOk, cm, outcome) ==
  /\ ~halted /\ listenPc = "GetCandidate"
  /\ rpcOk => cm.block.hash = listenHash
  /\ listenPc' = "idle"
  /\ listenHash' = NoHash
  /\ UNCHANGED <<lastCertificate, lastCommittee, cbPc, cbCause, halted>>
  /\ IF ~rpcOk \/ intermediateBlock = NilBlock
     THEN /\ ret' = "none"
          /\ UNCHANGED <<prevBlock, store, p, intermediateBlock, counter, bus,
                         gossip, mempool, pending>>
     ELSE LET r == finalizeIntermediateBlock(cm.cert, outcome)
              installed == InstallCandidate(r, cm)
          IN /\ prevBlock' = r.prevBlock
             /\ store' = r.store
             /\ p' = r.p
             /\ counter' = r.counter
             /\ bus' = r.bus
             /\ gossip' = r.gossip
             /\ ret' = r.err
             /\ intermediateBlock' = installed.intermediateBlock
             /\ mempool' = installed.mempool
             /\ pending' = installed.pending

\* sendRoundUpdate reads the intermediate block when it runs
RoundUpdate(cause) ==
  Ev("RoundUpdate", intermediateBlock.height + 1, cause)

\* a spawned goroutine is scheduled and runs sendRoundUpdate
sendRoundUpdate(i) ==
  /\ ~halted /\ i \in 1..Len(pending)
  /\ bus' = Append(bus, RoundUpdate(pending[i].cause))
  /\ pending' = SubSeq(pending, 1, i - 1) \o SubSeq(pending, i + 1, Len(pending))
  /\ ret' = "none"
  /\ UNCHANGED <<prevBlock, store, p, intermediateBlock, lastCertificate,
                 lastCommittee, counter, gossip, mempool, listenPc, listenHash,
                 cbPc, cbCause, halted>>

\* onInitialization runs sendRoundUpdate in the publisher's goroutine; without
\* an intermediate block the header read dereferences nil and the node panics
onInitialization ==
  /\ ~halted /\ LogRoom
  /\ ret' = "none"
  /\ IF intermediateBlock = NilBlock
     THEN /\ halted' = TRUE
          /\ UNCHANGED bus
     ELSE /\ bus' = Append(bus, RoundUpdate(0))
          /\ UNCHANGED halted
  /\ UNCHANGED <<prevBlock, store, p, intermediateBlock, lastCertificate,
                 lastCommittee, counter, gossip, mempool, pending, listenPc,
                 listenHash, cbPc, cbCause>>

\* RebuildChain under c.mu. answer "clear": loader.Clear fails; "panic":
\* LoadTip, the sanity check of the reloaded chain or the wallet call fails
RebuildChain(answer) ==
  /\ ~halted /\ LogRoom
  /\ ret' = CASE answer = "clear" -> "loader.Clear error"
             [] answer = "panic" -> "none"
             [] OTHER -> "Blockchain deleted"
  /\ UNCHANGED <<lastCommittee, counter, gossip, pending, listenPc,
                 listenHash, cbPc, cbCause>>
  /\ bus' = Append(bus, StopConsensus("RebuildChain"))
  /\ IF answer = "clear"
     THEN UNCHANGED <<prevBlock, store, p, intermediateBlock, lastCertificate,
                      mempool, halted>>
     ELSE /\ store' = <<Genesis>>
          /\ prevBlock' = Genesis
          /\ IF answer = "panic"
             THEN /\ halted' = TRUE
                  /\ UNCHANGED <<p, intermediateBlock, lastCertificate, mempool>>
             ELSE /\ p' = NewProvisioners
                  /\ intermediateBlock' = mockFirstIntermediateBlock(Genesis)
                  /\ lastCertificate' = EmptyCertificate
                  /\ mempool' = Ev("ClearWalletDatabase", 0, 0)
                  /\ UNCHANGED halted

\* ------------------------------------------------------------------------
\* Chain driver: specification
\* ------------------------------------------------------------------------
\* the tips the loader may hold when the chain is constructed
TipHeights == {0, 1}

\* the state New leaves
New ==
  /\ \E t \in TipHeights :
       /\ store = [i \in 1..(t + 1) |->
                     IF i = 1 THEN Genesis ELSE MkBlock(i - 1, 0, ValidCert)]
       /\ prevBlock = store[t + 1]
       /\ p = IF t = 0 THEN NewProvisioners ELSE t
       /\ intermediateBlock =
            IF t = 0 THEN mockFirstIntermediateBlock(Genesis) ELSE NilBlock
       /\ lastCertificate = IF t = 0 THEN EmptyCertificate ELSE NilCert
  /\ lastCommittee = EmptyCommittee
  /\ counter = 0
  /\ bus = <<>>
  /\ gossip = NoEv
  /\ mempool = NoEv
  /\ pending = <<>>
  /\ listenPc = "idle"
  /\ listenHash = NoHash
  /\ cbPc = "idle"
  /\ cbCause = 0
  /\ halted = FALSE
  /\ ret = "none"

CertMsgs ==
  {[hash |-> HashOf(h, v), cert |-> c, committee |-> CommitteeOf(c)] :
     h \in 1..MaxHeight, v \in Variants, c \in Certs}

\* candidate messages: a block (without certificate) and its certificate
Candidates ==
  {[block |-> MkBlock(h, v, NilCert), cert |-> c] :
     h \in 1..MaxHeight, v \in Variants, c \in Certs}

\* what the GetCandidate call returns: a candidate, or no response with the
\* error; AcceptBlock is reached only with a candidate
NoCandidate == [block |-> NilBlock, cert |-> NilCert]
GetCandidate(rpcOk) == IF rpcOk THEN Candidates ELSE {NoCandidate}
GetCandidateOutcomes(rpcOk) == IF rpcOk THEN Outcomes ELSE {"ok"}

NextChain ==
  \/ UNCHANGED otherThanChain /\ \E n \in 1..MaxCounter : StartSyncing(n)
  \/ UNCHANGED otherThanChain /\ \E blk \in PeerBlocks, outcome \in Outcomes :
       onAcceptBlock(blk, outcome)
  \/ UNCHANGED otherThanChain /\ \E cm \in Candidates, txsOk, validateOk \in BOOLEAN :
       requestRoundResultsRecv(cm, txsOk, validateOk)
  \/ UNCHANGED otherThanChain /\ requestRoundResultsTimeout
  \/ UNCHANGED otherThanChain /\ \E cMsg \in CertMsgs : handleCertificateMessage(cMsg)
  \/ UNCHANGED otherThanChain /\ \E rpcOk \in BOOLEAN :
       \E cm \in GetCandidate(rpcOk), outcome \in GetCandidateOutcomes(rpcOk) :
         handleCertificateMessageResume(rpcOk, cm, outcome)
  \/ UNCHANGED otherThanChain /\ \E i \in 1..MaxPending + 1 : sendRoundUpdate(i)
  \/ UNCHANGED otherThanChain /\ onInitialization
  \/ UNCHANGED otherThanChain /\ \E answer \in {"ok", "clear", "panic"} : RebuildChain(answer)

\* ------------------------------------------------------------------------
\* Reduction committee
\* ------------------------------------------------------------------------
committeeSize == 64

size(n) == IF n > committeeSize THEN committeeSize ELSE n

\* int(float64(n) * 0.75): three quarters of an int below 2^51 is exact in a
\* float64 and the conversion truncates
Quorum(n) == (size(n) * 3) \div 4

\* a registry of any size, Quorum not yet called
AnyProvisioners ==
  /\ members \in 0..MaxMembers
  /\ quorumRet = 0 - 1

\* a provisioner is added to or removed from the registry
SetMembers(n) ==
  /\ members' = n
  /\ quorumRet' = 0 - 1

CallQuorum ==
  /\ quorumRet' = Quorum(members)
  /\ UNCHANGED members

NextQuorum ==
  \/ UNCHANGED otherThanQuorum /\ \E n \in {members - 1, members + 1} \cap (0..MaxMembers) :
       SetMembers(n)
  \/ UNCHANGED otherThanQuorum /\ CallQuorum

\* ------------------------------------------------------------------------
\* Reputation moderator
\* ------------------------------------------------------------------------
maxStrikes == 3

Keys == {"pkA", "pkB"}

NoStrikes == [k \in Keys |-> 0]

\* addStrike publishing only above the threshold
addStrikeAboveMax(m, published, absentee) ==
  LET struck == [m EXCEPT ![absentee] = (@ + 1) % 256] IN
  [strikes |-> struck,
   removeProvisioner |->
     IF struck[absentee] > maxStrikes
     THEN [published EXCEPT ![absentee] = @ + 1]
     ELSE published]

\* addStrike: the uint8 count of the key is incremented, and RemoveProvisioner
\* is published with the key if the count is at or above maxStrikes
addStrike(m, published, absentee) ==
  LET struck == [m EXCEPT ![absentee] = (@ + 1) % 256] IN
  [strikes |-> struck,
   removeProvisioner |->
     IF struck[absentee] >= maxStrikes
     THEN [published EXCEPT ![absentee] = @ + 1]
     ELSE published]

\* the state launch leaves
launch ==
  /\ strikes = NoStrikes
  /\ roundChan = 0
  /\ absenteeChan = <<>>
  /\ removeProvisioner = NoStrikes
  /\ handled = NoStrikes
  /\ cleared = NoStrikes
  /\ updatesSince = <<>>

\* a round update is published and reaches roundChan
PublishRoundUpdate ==
  /\ roundChan < MaxChan
  /\ roundChan' = roundChan + 1
  /\ updatesSince' = [i \in 1..Len(updatesSince) |->
                        IF updatesSince[i] > MaxChan THEN updatesSince[i]
                        ELSE updatesSince[i] + 1]
  /\ UNCHANGED <<strikes, absenteeChan, removeProvisioner, handled, cleared>>

\* an absentee notification is published and reaches absenteeChan
PublishAbsentee(k) ==
  /\ Len(absenteeChan) < MaxChan
  /\ absenteeChan' = Append(absenteeChan, k)
  /\ updatesSince' = Append(updatesSince, 0)
  /\ UNCHANGED <<strikes, roundChan, removeProvisioner, handled, cleared>>

\* the round branch of listen leaving the strikes map as it is
listenRoundKeepsStrikes ==
  /\ roundChan > 0
  /\ roundChan' = roundChan - 1
  /\ strikes' = strikes
  /\ removeProvisioner' = NoStrikes
  /\ cleared' = handled
  /\ handled' = NoStrikes
  /\ UNCHANGED <<absenteeChan, updatesSince>>

\* listen, case <-m.roundChan: the strikes map is replaced by an empty one
listenRound ==
  /\ roundChan > 0
  /\ roundChan' = roundChan - 1
  /\ strikes' = NoStrikes
  /\ removeProvisioner' = NoStrikes
  /\ cleared' = handled
  /\ handled' = NoStrikes
  /\ UNCHANGED <<absenteeChan, updatesSince>>

\* listen, case absentee := <-m.absenteeChan, and addStrike
listenAbsentee ==
  /\ absenteeChan # <<>>
  /\ handled[Head(absenteeChan)] < MaxStrikeCount
  /\ LET absentee == Head(absenteeChan)
         r == addStrike(strikes, removeProvisioner, absentee)
     IN /\ strikes' = r.strikes
        /\ removeProvisioner' = r.removeProvisioner
        /\ handled' = [handled EXCEPT ![absentee] = @ + 1]
  /\ absenteeChan' = Tail(absenteeChan)
  /\ updatesSince' = Tail(updatesSince)
  /\ UNCHANGED <<roundChan, cleared>>

NextModerator ==
  \/ UNCHANGED otherThanModerator /\ PublishRoundUpdate
  \/ UNCHANGED otherThanModerator /\ \E k \in Keys : PublishAbsentee(k)
  \/ UNCHANGED otherThanModerator /\ listenRound
  \/ UNCHANGED otherThanModerator /\ listenAbsentee

\* ------------------------------------------------------------------------
\* Signature-set collector
\* ------------------------------------------------------------------------
Steps == {1, 2}
\* the senders of events; "pleb" is no member of the committee
Senders == {"a", "b", "pleb"}
Rounds == 0..(MaxRound + 1)

Events == [Round : 0..MaxRound, Step : Steps, Sender : Senders]

Contains(list, ev) == \E i \in 1..Len(list) : list[i] = ev

\* StepEventCollector.Store: an event already in the list is not added again
Store(list, ev) == IF Contains(list, ev) THEN list ELSE Append(list, ev)

\* StepEventCollector.Clear
Clear == [st \in Steps |-> <<>>]

\* committee.Collector.ShouldBeSkipped: a duplicate of a stored event, or an
\* event of a sender outside the committee
ShouldBeSkipped(c, ev) ==
  \/ Contains(c.StepEventCollector[ev.Step], ev)
  \/ ev.Sender = "pleb"

\* ShouldBeStored counting the events of all steps together
ShouldBeStoredSummed(c, q, m) ==
  Len(c.StepEventCollector[1]) + Len(c.StepEventCollector[2]) + 1 < q
    \/ m.Round > c.CurrentRound

ShouldBeStored(c, q, m) ==
  Len(c.StepEventCollector[m.Step]) + 1 < q \/ m.Round > c.CurrentRound

RECURSIVE Process(_, _, _)
RECURSIVE nextRound(_, _)
RECURSIVE Replay(_, _, _)

\* the loop of nextRound over the events queued for the round
Replay(c, q, events) ==
  IF events = <<>> THEN c
  ELSE Replay(Process(c, q, Head(events)), q, Tail(events))

\* nextRound without the loop over the queued events
nextRoundSkipsReplay(c, q) ==
  [c EXCEPT !.CurrentRound = @ + 1,
            !.RoundChan = Append(@, c.CurrentRound + 1),
            !.StepEventCollector = Clear]

nextRound(c, q) ==
  LET updated == [c EXCEPT !.CurrentRound = @ + 1,
                           !.RoundChan = Append(@, c.CurrentRound + 1),
                           !.StepEventCollector = Clear]
  IN Replay(updated, q, updated.futureRounds[updated.CurrentRound])

\* Process without the test for events of past rounds
ProcessTakesPastRounds(c, q, ev) ==
  IF ShouldBeSkipped(c, ev) THEN c
  ELSE IF ShouldBeStored(c, q, ev)
  THEN IF ev.Round > c.CurrentRound
       THEN [c EXCEPT !.futureRounds[ev.Round] = Append(@, ev)]
       ELSE [c EXCEPT !.repropagated = @ + 1,
                      !.StepEventCollector[ev.Step] = Store(@, ev)]
  ELSE nextRound(c, q)

Process(c, q, ev) ==
  LET isIrrelevant == c.CurrentRound # 0 /\ c.CurrentRound > ev.Round IN
  IF ShouldBeSkipped(c, ev) \/ isIrrelevant THEN c
  ELSE IF ShouldBeStored(c, q, ev)
  THEN IF ev.Round > c.CurrentRound
       THEN [c EXCEPT !.futureRounds[ev.Round] = Append(@, ev)]
       ELSE [c EXCEPT !.repropagated = @ + 1,
                      !.StepEventCollector[ev.Step] = Store(@, ev)]
  ELSE nextRound(c, q)

Queued(c) ==
  LET RECURSIVE Sum(_)
      Sum(r) == IF r < 0 THEN 0 ELSE Len(c.futureRounds[r]) + Sum(r - 1)
  IN Sum(MaxRound + 1)

\* the state newSigSetCollector leaves, at the round the node starts in
newSigSetCollector ==
  /\ quorum \in 0..MaxQuorum
  /\ \E r \in {0, 1} :
       collector = [CurrentRound |-> r,
                    StepEventCollector |-> Clear,
                    futureRounds |-> [x \in Rounds |-> <<>>],
                    RoundChan |-> <<>>,
                    repropagated |-> 0]
  /\ collected = [Round |-> 0, Step |-> 1, Sender |-> "pleb"]

\* Collect: an event of the SigSetAgreement topic is unmarshalled and processed
Collect(ev) ==
  /\ Queued(collector) < MaxQueued
  /\ collector' = Process(collector, quorum, ev)
  /\ collected' = ev
  /\ UNCHANGED quorum

NextCollector ==
  UNCHANGED otherThanCollector /\ \E ev \in Events : Collect(ev)

\* ------------------------------------------------------------------------
\* Second-reduction phase
\* ------------------------------------------------------------------------
\* reduction.EmptyHash and a block hash
EmptyHash == 0
Hashes == {EmptyHash, 1}

\* the members of the committee of (round, step); "pleb" is none
Committee == {"a", "b"}

\* events of the round: the step is this phase's or the one after it
PhaseEvents ==
  [Category : {"Reduction", "Agreement"}, Step : {"this", "next"},
   Sender : Committee \cup {"pleb"}, BlockHash : Hashes]

\* queue.GetEvents(r.Round, step): events of this round and step; the loop
\* over them skips an event that is no Reduction without looking at its
\* sender or hash, so one Agreement stands for all of them
QueueEvents ==
  {ev \in PhaseEvents :
     /\ ev.Step = "this"
     /\ ev.Category = "Agreement" => (ev.Sender = "a" /\ ev.BlockHash = 1)}

SeqsUpTo(S, n) == UNION {[1..k -> S] : k \in 0..n}

\* reduction.ShouldProcess: a Reduction of this round and step
ShouldProcess(ev) == ev.Category = "Reduction" /\ ev.Step = "this"

\* Handler.IsMember taking every sender for a member
IsMemberAnyone(sender) == sender \in Committee \cup {"pleb"}

\* Handler.IsMember
IsMember(sender) == sender \in Committee

\* StepVotesMsg.IsEmpty
IsEmpty(svm) == svm.StepVotes = {}

NoVotes == [h \in Hashes |-> {}]

\* Aggregator.CollectVote: a sender is counted once per step; the call that
\* brings the votes on a hash to the quorum returns the result
CollectVote(votes, q, r) ==
  IF \E h \in Hashes : r.Sender \in votes[h]
  THEN [reached |-> FALSE, votes |-> votes, Hash |-> EmptyHash, SV |-> {}]
  ELSE LET added == [votes EXCEPT ![r.BlockHash] = @ \cup {r.Sender}] IN
       IF Cardinality(added[r.BlockHash]) >= q
       THEN [reached |-> TRUE, votes |-> added,
             Hash |-> r.BlockHash, SV |-> added[r.BlockHash]]
       ELSE [reached |-> FALSE, votes |-> added, Hash |-> EmptyHash, SV |-> {}]

\* createStepVoteMessage, for a result that is not nil
createStepVoteMessage(result) ==
  [BlockHash |-> result.Hash, StepVotes |-> result.SV]

\* collectReduction: svm counts only if reached (else the code returns nil)
collectReduction(votes, q, r, sigOk, collectOk) ==
  IF ~sigOk
  THEN [err |-> "VerifySignature", reached |-> FALSE, votes |-> votes,
        svm |-> createStepVoteMessage([Hash |-> EmptyHash, SV |-> {}])]
  ELSE IF ~collectOk
  THEN [err |-> "CollectVote", reached |-> FALSE, votes |-> votes,
        svm |-> createStepVoteMessage([Hash |-> EmptyHash, SV |-> {}])]
  ELSE LET result == CollectVote(votes, q, r) IN
       [err |-> "nil", reached |-> result.reached, votes |-> result.votes,
        svm |-> createStepVoteMessage(result)]

\* stepVotesAreValid for the two messages Run passes
stepVotesAreValid(first, second) ==
  /\ ~IsEmpty(first)
  /\ ~IsEmpty(second)
  /\ first.BlockHash # EmptyHash
  /\ second.BlockHash # EmptyHash

\* the Reduction SendReduction signs and gossips
ReductionMsg(hash) == [topic |-> "Reduction", BlockHash |-> hash, VotesPerStep |-> <<>>]

\* sendAgreement with the two StepVotes swapped
AgreementMsgSwapped(first, svm) ==
  [topic |-> "Agreement", BlockHash |-> svm.BlockHash,
   VotesPerStep |-> <<svm.StepVotes, first.StepVotes>>]

\* the Agreement sendAgreement gossips
AgreementMsg(first, svm) ==
  [topic |-> "Agreement", BlockHash |-> svm.BlockHash,
   VotesPerStep |-> <<first.StepVotes, svm.StepVotes>>]

\* the state Fn leaves when the phase function is about to run
Fn ==
  /\ phPc = "entry"
  /\ amMember \in BOOLEAN
  /\ firstStepVotesMsg \in [BlockHash : Hashes, StepVotes : {{}, Committee}]
  /\ phQueue \in SeqsUpTo(QueueEvents, MaxPhaseQueue)
  /\ aggregator = NoVotes
  /\ phQuorum \in 1..MaxPhaseQuorum
  /\ phGossip = <<>>
  /\ timeoutIncreases = 0
  /\ timerFired = FALSE
  /\ cancelled = "never"
  /\ phRet = [fn |-> "nil", err |-> "nil"]
  /\ phExit = "running"
  /\ isMember = "not asked"
  /\ timeoutReceived = FALSE

\* Run returns (fn, err) from the statement named by exit
Return(fn, err, exit) ==
  /\ phPc' = "done"
  /\ phRet' = [fn |-> fn, err |-> err]
  /\ phExit' = exit

\* the body both loops of Run share for a Reduction: the membership test,
\* collectReduction and, at quorum, sendAgreement and the return; without
\* quorum Run goes on at position goOn
onReduction(rMsg, sigOk, collectOk, agreeOk, goOn) ==
  /\ isMember' = IF IsMember(rMsg.Sender) THEN "member" ELSE "no member"
  /\ IF ~IsMember(rMsg.Sender)
     THEN /\ phPc' = goOn
          /\ UNCHANGED <<aggregator, phGossip, phRet, phExit>>
     ELSE LET res == collectReduction(aggregator, phQuorum, rMsg, sigOk, collectOk) IN
          IF res.err # "nil"
          THEN Return("nil", res.err, res.err) /\ UNCHANGED <<aggregator, phGossip>>
          ELSE /\ aggregator' = res.votes
               /\ IF ~res.reached
                  THEN phPc' = goOn /\ UNCHANGED <<phGossip, phRet, phExit>>
                  ELSE IF stepVotesAreValid(firstStepVotesMsg, res.svm) /\ amMember
                  THEN IF agreeOk
                       THEN /\ phGossip' =
                                 Append(phGossip, AgreementMsg(firstStepVotesMsg, res.svm))
                            /\ Return("next", "nil", "quorum")
                       ELSE /\ Return("nil", "sendAgreement", "sendAgreement")
                            /\ UNCHANGED phGossip
                  ELSE Return("next", "nil", "quorum") /\ UNCHANGED phGossip

\* Run going to the loops without sending the node's own Reduction
RunEntrySendsNothing(sendOk) ==
  /\ phPc = "entry"
  /\ phPc' = IF phQueue = <<>> THEN "wait" ELSE "drain"
  /\ UNCHANGED <<amMember, firstStepVotesMsg, phQueue, aggregator, phQuorum,
                 phGossip, timeoutIncreases, timerFired, cancelled, phRet, phExit,
                 isMember, timeoutReceived>>

\* Run up to the loop over the queue: the handler, the node's own Reduction
\* and the timer
RunEntry(sendOk) ==
  /\ phPc = "entry"
  /\ IF amMember /\ ~sendOk
     THEN Return("nil", "SendReduction", "SendReduction") /\ UNCHANGED phGossip
     ELSE /\ phGossip' = IF amMember
                         THEN Append(phGossip, ReductionMsg(firstStepVotesMsg.BlockHash))
                         ELSE phGossip
          /\ phPc' = IF phQueue = <<>> THEN "wait" ELSE "drain"
          /\ UNCHANGED <<phRet, phExit>>
  /\ UNCHANGED <<amMember, firstStepVotesMsg, phQueue, aggregator, phQuorum,
                 timeoutIncreases, timerFired, cancelled, isMember, timeoutReceived>>

\* one turn of the loop over queue.GetEvents
RunQueued(sigOk, collectOk, agreeOk) ==
  /\ phPc = "drain"
  /\ phQueue' = Tail(phQueue)
  /\ LET goOn == IF Tail(phQueue) = <<>> THEN "wait" ELSE "drain" IN
     IF Head(phQueue).Category = "Reduction"
     THEN onReduction(Head(phQueue), sigOk, collectOk, agreeOk, goOn)
     ELSE /\ phPc' = goOn
          /\ isMember' = "not asked"
          /\ UNCHANGED <<aggregator, phGossip, phRet, phExit>>
  /\ UNCHANGED <<amMember, firstStepVotesMsg, phQuorum, timeoutIncreases,
                 timerFired, cancelled, timeoutReceived>>

\* the select of Run takes an event from evChan
RunEvent(ev, sigOk, collectOk, agreeOk) ==
  /\ phPc = "wait"
  /\ IF ShouldProcess(ev)
     THEN /\ onReduction(ev, sigOk, collectOk, agreeOk, "wait")
          \* the goroutine receiving from timeoutChan is started once
          \* collectReduction has returned a StepVotesMsg
          /\ timeoutReceived' = (phExit' \in {"quorum", "sendAgreement"})
     ELSE /\ isMember' = "not asked"
          /\ UNCHANGED <<phPc, aggregator, phGossip, phRet, phExit, timeoutReceived>>
  /\ UNCHANGED <<amMember, firstStepVotesMsg, phQueue, phQuorum,
                 timeoutIncreases, timerFired, cancelled>>

\* the timeout branch of the select without the call of IncreaseTimeout
RunTimeoutKeepsTimeout ==
  /\ phPc = "wait" /\ timerFired
  /\ timeoutIncreases' = timeoutIncreases
  /\ Return("next", "nil", "timeout")
  /\ timeoutReceived' = TRUE
  /\ isMember' = "not asked"
  /\ UNCHANGED <<amMember, firstStepVotesMsg, phQueue, aggregator, phQuorum,
                 phGossip, timerFired, cancelled>>

\* the select of Run takes timeoutChan
RunTimeout ==
  /\ phPc = "wait" /\ timerFired
  /\ timeoutIncreases' = timeoutIncreases + 1
  /\ Return("next", "nil", "timeout")
  /\ timeoutReceived' = TRUE
  /\ isMember' = "not asked"
  /\ UNCHANGED <<amMember, firstStepVotesMsg, phQueue, aggregator, phQuorum,
                 phGossip, timerFired, cancelled>>

\* the select of Run takes ctx.Done()
RunDone ==
  /\ phPc = "wait" /\ cancelled # "never"
  /\ Return("nil", "nil", "cancelled")
  /\ timeoutReceived' = TRUE
  /\ isMember' = "not asked"
  /\ UNCHANGED <<amMember, firstStepVotesMsg, phQueue, aggregator, phQuorum,
                 phGossip, timeoutIncreases, timerFired, cancelled>>

\* p.TimeOut elapses after time.After was called
TimerFires ==
  /\ phPc \in {"drain", "wait"} /\ ~timerFired
  /\ timerFired' = TRUE
  /\ UNCHANGED <<phPc, amMember, firstStepVotesMsg, phQueue, aggregator,
                 phQuorum, phGossip, timeoutIncreases, cancelled, phRet, phExit,
                 isMember, timeoutReceived>>

\* the round context is cancelled; the position of Run at that time is kept
CancelRound ==
  /\ phPc # "done" /\ cancelled = "never"
  /\ cancelled' = phPc
  /\ UNCHANGED <<phPc, amMember, firstStepVotesMsg, phQueue, aggregator,
                 phQuorum, phGossip, timeoutIncreases, timerFired, phRet, phExit,
                 isMember, timeoutReceived>>

NextPhase ==
  \/ UNCHANGED otherThanPhase /\ \E sendOk \in BOOLEAN : RunEntry(sendOk)
  \/ UNCHANGED otherThanPhase /\ \E sigOk, collectOk, agreeOk \in BOOLEAN :
       RunQueued(sigOk, collectOk, agreeOk)
  \/ UNCHANGED otherThanPhase /\ \E ev \in PhaseEvents, sigOk, collectOk, agreeOk \in BOOLEAN :
       RunEvent(ev, sigOk, collectOk, agreeOk)
  \/ UNCHANGED otherThanPhase /\ RunTimeout
  \/ UNCHANGED otherThanPhase /\ RunDone
  \/ UNCHANGED otherThanPhase /\ TimerFires
  \/ UNCHANGED otherThanPhase /\ CancelRound


\* ------------------------------------------------------------------------
\* Peer: the read loop
\* ------------------------------------------------------------------------
Magics == {"mainnet", "other"}
\* p.cfg.Magic
cfgMagic == "mainnet"
Commands == {"block", "tx"}

\* MessageHeaderSize bytes of the connection, as decodeMessageHeader reads
\* them: any such bytes decode to some header
Cells ==
  [Magic : Magics, Command : Commands, Length : 0..MaxPayload, Checksum : {0, 1}]

\* the checksum of a payload, a function of its bytes
Checksum(payload) ==
  Cardinality({i \in 1..Len(payload) : payload[i].Command = "tx"}) % 2

\* the messages the remote end writes: a header that states the length of
\* the payload, and the payload, whose bytes are arbitrary
Frames ==
  {[header |-> h, payload |-> pl] :
     h \in Cells, pl \in UNION {[1..k -> Cells] : k \in 0..MaxPayload}}

WellFramed == {f \in Frames : f.header.Length = Len(f.payload)}

\* no message yet
NoFrame ==
  [header |-> [Magic |-> "none", Command |-> "none", Length |-> 0, Checksum |-> 0],
   payload |-> <<>>]

headerMagicIsValid(header) == cfgMagic = header.Magic

payloadChecksumIsValid(payloadBuffer, checksum) == Checksum(payloadBuffer) = checksum

\* the message passes both checks of ReadLoop
Passes(f) ==
  /\ headerMagicIsValid(f.header)
  /\ payloadChecksumIsValid(f.payload, f.header.Checksum)

\* NewPeer followed by Run: ReadLoop is about to read its first header
NewPeer ==
  /\ conn = <<>>
  /\ connClosed = FALSE
  /\ Disconnected = 0
  /\ readPc = "readHeader"
  /\ hdr = NoFrame.header
  /\ sent = NoFrame
  /\ peerBus = <<>>
  /\ prevRejected = FALSE

\* the remote end writes a message once ReadLoop has read all it wrote before
RemoteWrite(f) ==
  /\ ~connClosed /\ Disconnected = 0 /\ readPc # "returned"
  /\ conn = <<>>
  /\ conn' = <<f.header>> \o f.payload
  /\ sent' = f
  /\ peerBus' = <<>>
  /\ prevRejected' = (sent # NoFrame /\ ~Passes(sent))
  /\ UNCHANGED <<connClosed, Disconnected, readPc, hdr>>

\* the remote end closes the connection
RemoteClose ==
  /\ ~connClosed
  /\ connClosed' = TRUE
  /\ UNCHANGED <<conn, Disconnected, readPc, hdr, sent, peerBus, prevRejected>>

\* idleTimer fires while ReadLoop waits for a header: Disconnect
idleTimer ==
  /\ readPc = "readHeader" /\ Disconnected = 0
  /\ Disconnected' = 1
  /\ connClosed' = TRUE
  /\ UNCHANGED <<conn, readPc, hdr, sent, peerBus, prevRejected>>

\* ReadLoop from the loop condition to the test of the magic: a disconnected
\* peer or a failed read ends the loop, a header of another magic is passed
\* over with its payload left on the connection
readHeader ==
  /\ readPc = "readHeader"
  /\ IF Disconnected # 0 \/ (conn = <<>> /\ connClosed)
     THEN /\ Disconnected' = 1
          /\ readPc' = "returned"
          /\ UNCHANGED <<conn, hdr>>
     ELSE /\ conn # <<>>
          /\ hdr' = Head(conn)
          /\ conn' = Tail(conn)
          /\ readPc' = IF headerMagicIsValid(Head(conn))
                       THEN "readPayload" ELSE "readHeader"
          /\ UNCHANGED Disconnected
  /\ UNCHANGED <<connClosed, sent, peerBus, prevRejected>>

\* ReadLoop from readPayload to the end of the turn: header.Length bytes are
\* read and published under the command if the checksum matches
readPayload ==
  /\ readPc = "readPayload"
  /\ IF Len(conn) >= hdr.Length
     THEN LET payloadBuffer == SubSeq(conn, 1, hdr.Length) IN
          /\ conn' = SubSeq(conn, hdr.Length + 1, Len(conn))
          /\ peerBus' =
               IF payloadChecksumIsValid(payloadBuffer, hdr.Checksum)
               THEN Append(peerBus, [topic |-> hdr.Command, payload |-> payloadBuffer])
               ELSE peerBus
          /\ readPc' = "readHeader"
          /\ UNCHANGED Disconnected
     ELSE /\ connClosed \/ Disconnected # 0
          /\ Disconnected' = 1
          /\ readPc' = "returned"
          /\ UNCHANGED <<conn, peerBus>>
  /\ UNCHANGED <<connClosed, hdr, sent, prevRejected>>

NextPeer ==
  \/ UNCHANGED otherThanPeer /\ \E f \in WellFramed : RemoteWrite(f)
  \/ UNCHANGED otherThanPeer /\ RemoteClose
  \/ UNCHANGED otherThanPeer /\ idleTimer
  \/ UNCHANGED otherThanPeer /\ readHeader
  \/ UNCHANGED otherThanPeer /\ readPayload


\* ------------------------------------------------------------------------
\* Topic listener
\* ------------------------------------------------------------------------
\* NewTopicListener, and Accept started with or without processors
NewTopicListener ==
  /\ msgChan = <<>>
  /\ quitChan = <<>>
  /\ msgSubscribed = TRUE
  /\ quitSubscribed = TRUE
  /\ processors \in BOOLEAN
  /\ accPc = "select"
  /\ delivered = <<>>
  /\ pubCount = 0
  /\ enqueued = <<>>
  /\ rejected = {}
  /\ quitPublished = FALSE

\* the bus publishes a message on the topic: a subscribed channel with room
\* gets it, a full one loses it
PublishTopic ==
  /\ pubCount < MaxPublished
  /\ pubCount' = pubCount + 1
  /\ IF msgSubscribed /\ Len(msgChan) < MaxMsgChan
     THEN /\ msgChan' = Append(msgChan, pubCount + 1)
          /\ enqueued' = Append(enqueued, pubCount + 1)
     ELSE UNCHANGED <<msgChan, enqueued>>
  /\ UNCHANGED <<quitChan, msgSubscribed, quitSubscribed, processors, accPc,
                 delivered, rejected, quitPublished>>

\* the bus publishes on the quit topic; quitChan holds one message
PublishQuit ==
  /\ ~quitPublished
  /\ quitPublished' = TRUE
  /\ quitChan' = IF quitSubscribed /\ Len(quitChan) < 1
                 THEN Append(quitChan, "quit") ELSE quitChan
  /\ UNCHANGED <<msgChan, msgSubscribed, quitSubscribed, processors, accPc,
                 delivered, pubCount, enqueued, rejected>>

\* Accept, the quit branch that unsubscribes only the topic channel
AcceptQuitKeepsQuitChan ==
  /\ accPc = "select" /\ quitChan # <<>>
  /\ quitChan' = Tail(quitChan)
  /\ msgSubscribed' = FALSE
  /\ quitSubscribed' = quitSubscribed
  /\ accPc' = "returned"
  /\ UNCHANGED <<msgChan, processors, delivered, pubCount, enqueued, rejected,
                 quitPublished>>

\* Accept: the select takes quitChan
AcceptQuit ==
  /\ accPc = "select" /\ quitChan # <<>>
  /\ quitChan' = Tail(quitChan)
  /\ msgSubscribed' = FALSE
  /\ quitSubscribed' = FALSE
  /\ accPc' = "returned"
  /\ UNCHANGED <<msgChan, processors, delivered, pubCount, enqueued, rejected,
                 quitPublished>>

\* Accept, the message branch handing the buffer to Collect twice
AcceptMsgTwice(processOk) ==
  /\ accPc = "select" /\ msgChan # <<>>
  /\ msgChan' = Tail(msgChan)
  /\ IF processors /\ ~processOk
     THEN /\ rejected' = rejected \cup {Head(msgChan)}
          /\ UNCHANGED delivered
     ELSE /\ delivered' = delivered \o <<Head(msgChan), Head(msgChan)>>
          /\ UNCHANGED rejected
  /\ UNCHANGED <<quitChan, msgSubscribed, quitSubscribed, processors, accPc,
                 pubCount, enqueued, quitPublished>>

\* Accept: the select takes msgChan; preprocess, then Collect, whose error
\* is only logged
AcceptMsg(processOk) ==
  /\ accPc = "select" /\ msgChan # <<>>
  /\ msgChan' = Tail(msgChan)
  /\ IF processors /\ ~processOk
     THEN /\ rejected' = rejected \cup {Head(msgChan)}
          /\ UNCHANGED delivered
     ELSE /\ delivered' = Append(delivered, Head(msgChan))
          /\ UNCHANGED rejected
  /\ UNCHANGED <<quitChan, msgSubscribed, quitSubscribed, processors, accPc,
                 pubCount, enqueued, quitPublished>>

NextListener ==
  \/ UNCHANGED otherThanListener /\ PublishTopic
  \/ UNCHANGED otherThanListener /\ PublishQuit
  \/ UNCHANGED otherThanListener /\ AcceptQuit
  \/ UNCHANGED otherThanListener /\ \E processOk \in BOOLEAN : AcceptMsg(processOk)


\* ------------------------------------------------------------------------
\* Certificate: Encode and Decode
\* ------------------------------------------------------------------------
\* the length of a compressed BLS signature and of a hash on the wire
\* (33 and 32 bytes, shortened here)
BLSLen == 2
HashLen == 1

CertSigs == {<<0, 255>>, <<255, 1>>}
CertSteps == {1, 256}
CertKeys == {<<>>, <<5>>, <<5, 6>>}
CertHashes == {<<0>>, <<9>>}

Certificates ==
  [BRBatchedSig : CertSigs, BRStep : CertSteps,
   BRPubKeys : SeqsUpTo(CertKeys, MaxPubKeys),
   SRBatchedSig : CertSigs, SRStep : CertSteps,
   SRPubKeys : SeqsUpTo(CertKeys, MaxPubKeys),
   Hash : CertHashes]

\* a certificate nothing was decoded into
NoCertificate ==
  [BRBatchedSig |-> <<>>, BRStep |-> 0, BRPubKeys |-> <<>>,
   SRBatchedSig |-> <<>>, SRStep |-> 0, SRPubKeys |-> <<>>, Hash |-> <<>>]

\* encoding.WriteUint32 and ReadUint32, little endian
WriteUint32(n) ==
  <<n % 256, (n \div 256) % 256, (n \div 65536) % 256, (n \div 16777216) % 256>>

ReadUint32(r) ==
  IF Len(r) < 4 THEN [ok |-> FALSE, val |-> 0, rest |-> r]
  ELSE [ok |-> TRUE,
        val |-> r[1] + 256 * r[2] + 65536 * r[3] + 16777216 * r[4],
        rest |-> SubSeq(r, 5, Len(r))]

\* encoding.WriteVarInt and ReadVarInt: one byte below 0xfd, else the
\* discriminant 0xfd and two bytes
WriteVarInt(n) ==
  IF n < 253 THEN <<n>> ELSE <<253, n % 256, (n \div 256) % 256>>

ReadVarInt(r) ==
  IF r = <<>> THEN [ok |-> FALSE, val |-> 0, rest |-> r]
  ELSE IF r[1] < 253 THEN [ok |-> TRUE, val |-> r[1], rest |-> Tail(r)]
  ELSE IF Len(r) < 3 THEN [ok |-> FALSE, val |-> 0, rest |-> r]
  ELSE [ok |-> TRUE, val |-> r[2] + 256 * r[3], rest |-> SubSeq(r, 4, Len(r))]

\* reading a fixed number of bytes: ReadBLS, Read256, the body of ReadVarBytes
ReadBytes(r, n) ==
  IF Len(r) < n THEN [ok |-> FALSE, val |-> <<>>, rest |-> r]
  ELSE [ok |-> TRUE, val |-> SubSeq(r, 1, n), rest |-> SubSeq(r, n + 1, Len(r))]

\* encoding.WriteVarBytes and ReadVarBytes
WriteVarBytes(b) == WriteVarInt(Len(b)) \o b

ReadVarBytes(r) ==
  LET l == ReadVarInt(r) IN
  IF ~l.ok THEN [ok |-> FALSE, val |-> <<>>, rest |-> r]
  ELSE ReadBytes(l.rest, l.val)

\* the loops over the public keys
RECURSIVE WriteKeys(_)
WriteKeys(keys) ==
  IF keys = <<>> THEN <<>> ELSE WriteVarBytes(Head(keys)) \o WriteKeys(Tail(keys))

RECURSIVE ReadKeys(_, _)
ReadKeys(r, n) ==
  IF n = 0 THEN [ok |-> TRUE, val |-> <<>>, rest |-> r]
  ELSE LET k == ReadVarBytes(r) IN
       IF ~k.ok THEN [ok |-> FALSE, val |-> <<>>, rest |-> r]
       ELSE LET more == ReadKeys(k.rest, n - 1) IN
            [ok |-> more.ok, val |-> <<k.val>> \o more.val, rest |-> more.rest]

\* EncodeHashable writing the keys of the block reduction last to first
EncodeHashableReversed(c) ==
  c.BRBatchedSig \o WriteUint32(c.BRStep)
    \o WriteVarInt(Len(c.BRPubKeys)) \o WriteKeys([i \in 1..Len(c.BRPubKeys) |->
                    c.BRPubKeys[Len(c.BRPubKeys) + 1 - i]])
    \o c.SRBatchedSig \o WriteUint32(c.SRStep)
    \o WriteVarInt(Len(c.SRPubKeys)) \o WriteKeys(c.SRPubKeys)

EncodeHashable(c) ==
  c.BRBatchedSig \o WriteUint32(c.BRStep)
    \o WriteVarInt(Len(c.BRPubKeys)) \o WriteKeys(c.BRPubKeys)
    \o c.SRBatchedSig \o WriteUint32(c.SRStep)
    \o WriteVarInt(Len(c.SRPubKeys)) \o WriteKeys(c.SRPubKeys)

\* Certificate.Encode
Encode(c) == EncodeHashable(c) \o c.Hash

\* Certificate.Decode: the fields read so far stay in c when a read fails
Decode(r) ==
  LET brSig == ReadBytes(r, BLSLen)
      brStep == ReadUint32(brSig.rest)
      lBR == ReadVarInt(brStep.rest)
      brKeys == ReadKeys(lBR.rest, lBR.val)
      srSig == ReadBytes(brKeys.rest, BLSLen)
      srStep == ReadUint32(srSig.rest)
      lSR == ReadVarInt(srStep.rest)
      srKeys == ReadKeys(lSR.rest, lSR.val)
      hash == ReadBytes(srKeys.rest, HashLen)
      ok == /\ brSig.ok /\ brStep.ok /\ lBR.ok /\ brKeys.ok
            /\ srSig.ok /\ srStep.ok /\ lSR.ok /\ srKeys.ok /\ hash.ok
  IN [err |-> IF ok THEN "nil" ELSE "read",
      c |-> [BRBatchedSig |-> brSig.val, BRStep |-> brStep.val,
             BRPubKeys |-> brKeys.val,
             SRBatchedSig |-> srSig.val, SRStep |-> srStep.val,
             SRPubKeys |-> srKeys.val, Hash |-> hash.val]]

\* a certificate about to be encoded
NewCertificate ==
  /\ certificate \in Certificates
  /\ written = <<>>
  /\ decoded = [err |-> "nil", c |-> NoCertificate]
  /\ codecPc = "new"

EncodeStep ==
  /\ codecPc = "new"
  /\ written' = Encode(certificate)
  /\ codecPc' = "encoded"
  /\ UNCHANGED <<certificate, decoded>>

DecodeStep ==
  /\ codecPc = "encoded"
  /\ decoded' = Decode(written)
  /\ codecPc' = "decoded"
  /\ UNCHANGED <<certificate, written>>

NextCodec ==
  \/ UNCHANGED otherThanCodec /\ EncodeStep
  \/ UNCHANGED otherThanCodec /\ DecodeStep


\* ------------------------------------------------------------------------
\* Score generator
\* ------------------------------------------------------------------------
BidLists == {"bids", "other bids"}

\* the buffer sendScore publishes: the Score topic, then the marshalled event
ScoreMsg(round, step) ==
  [topic |-> "Gossip", tag |-> "Score", Round |-> round, Step |-> step]

\* newGenerator; Listen and Accept are started
newGenerator ==
  /\ currentRound = 0
  /\ currentStep = 0
  /\ bidList \in BidLists
  /\ roundChannel = <<>>
  /\ genGossip = <<>>
  /\ listenSt = "select"
  /\ collectSt = "idle"
  /\ listenRead = 0
  /\ collectRead = 0
  /\ stepTouched = FALSE
  /\ genRet = "none"

\* the handlers are started while fewer than MaxScores messages were gossiped
ScoreRoom == Len(genGossip) < MaxScores

\* a round update is published and waits on roundChannel
InitRoundUpdate(round) ==
  /\ roundChannel = <<>>
  /\ roundChannel' = <<round>>
  /\ UNCHANGED <<currentRound, currentStep, bidList, genGossip, listenSt,
                 collectSt, listenRead, collectRead, stepTouched, genRet>>

\* Listen takes bidListChannel
BidListUpdate(b) ==
  /\ listenSt = "select"
  /\ bidList' = b
  /\ UNCHANGED <<currentRound, currentStep, roundChannel, genGossip, listenSt,
                 collectSt, listenRead, collectRead, stepTouched, genRet>>

\* Listen takes roundChannel: updateRound up to the call of generateProof
updateRound ==
  /\ listenSt = "select" /\ roundChannel # <<>> /\ ScoreRoom
  /\ currentRound' = Head(roundChannel)
  /\ currentStep' = 1
  /\ roundChannel' = Tail(roundChannel)
  /\ stepTouched' = FALSE
  /\ listenSt' = "proving"
  /\ genRet' = "none"
  /\ UNCHANGED <<bidList, genGossip, collectSt, listenRead, collectRead>>

\* the rest of updateRound with the error of generateScoreEvent ignored
updateRoundIgnoresError(proofOk, marshalOk) ==
  /\ listenSt = "proving"
  /\ genRet' = IF ~proofOk THEN "proof" ELSE IF ~marshalOk THEN "marshal" ELSE "nil"
  /\ IF proofOk /\ ~marshalOk
     THEN /\ listenSt' = "select"
          /\ UNCHANGED <<genGossip, listenRead>>
     ELSE /\ genGossip' = Append(genGossip, ScoreMsg(currentRound, currentStep))
          /\ listenRead' = currentStep
          /\ listenSt' = "incrementing"
  /\ UNCHANGED <<currentRound, currentStep, bidList, roundChannel, collectSt,
                 collectRead, stepTouched>>

\* updateRound from the return of generateProof to the read of the step for
\* the increment: the event takes the round and the step the generator has
\* now, sendScore publishes it
updateRoundProved(proofOk, marshalOk) ==
  /\ listenSt = "proving"
  /\ genRet' = IF ~proofOk THEN "proof" ELSE IF ~marshalOk THEN "marshal" ELSE "nil"
  /\ IF ~proofOk \/ ~marshalOk
     THEN /\ listenSt' = "select"
          /\ UNCHANGED <<genGossip, listenRead>>
     ELSE /\ genGossip' = Append(genGossip, ScoreMsg(currentRound, currentStep))
          /\ listenRead' = currentStep
          /\ listenSt' = "incrementing"
  /\ UNCHANGED <<currentRound, currentStep, bidList, roundChannel, collectSt,
                 collectRead, stepTouched>>

\* updateRound: the write of g.currentStep++
updateRoundIncrement ==
  /\ listenSt = "incrementing"
  /\ currentStep' = (listenRead + 1) % 256
  /\ listenSt' = "select"
  /\ listenRead' = 0
  /\ UNCHANGED <<currentRound, bidList, roundChannel, genGossip, collectSt,
                 collectRead, stepTouched, genRet>>

\* Collect, called by the listener of the block generation topic, up to the
\* call of generateProof
CollectBegin ==
  /\ collectSt = "idle" /\ ScoreRoom
  /\ collectSt' = "proving"
  /\ UNCHANGED <<currentRound, currentStep, bidList, roundChannel, genGossip,
                 listenSt, listenRead, collectRead, stepTouched, genRet>>

\* Collect from the return of generateProof to the read of the step
CollectProved(proofOk, marshalOk) ==
  /\ collectSt = "proving"
  /\ IF ~proofOk \/ ~marshalOk
     THEN /\ collectSt' = "idle"
          /\ UNCHANGED <<genGossip, collectRead>>
     ELSE /\ genGossip' = Append(genGossip, ScoreMsg(currentRound, currentStep))
          /\ collectRead' = currentStep
          /\ collectSt' = "incrementing"
  /\ UNCHANGED <<currentRound, currentStep, bidList, roundChannel, listenSt,
                 listenRead, stepTouched, genRet>>

\* Collect: the write of g.currentStep++
CollectIncrement ==
  /\ collectSt = "incrementing"
  /\ currentStep' = (collectRead + 1) % 256
  /\ collectSt' = "idle"
  /\ collectRead' = 0
  /\ stepTouched' = TRUE
  /\ UNCHANGED <<currentRound, bidList, roundChannel, genGossip, listenSt,
                 listenRead, genRet>>

NextGenerator ==
  \/ UNCHANGED otherThanGenerator /\ \E round \in 1..MaxGenRound : InitRoundUpdate(round)
  \/ UNCHANGED otherThanGenerator /\ \E b \in BidLists : BidListUpdate(b)
  \/ UNCHANGED otherThanGenerator /\ updateRound
  \/ UNCHANGED otherThanGenerator /\ \E proofOk, marshalOk \in BOOLEAN :
       updateRoundProved(proofOk, marshalOk)
  \/ UNCHANGED otherThanGenerator /\ updateRoundIncrement
  \/ UNCHANGED otherThanGenerator /\ CollectBegin
  \/ UNCHANGED otherThanGenerator /\ \E proofOk, marshalOk \in BOOLEAN :
       CollectProved(proofOk, marshalOk)
  \/ UNCHANGED otherThanGenerator /\ CollectIncrement


\* ------------------------------------------------------------------------
\* Voucher client
\* ------------------------------------------------------------------------
\* the string the seeder generated, sent in a buffer padded to 64 bytes
Challenges == {"ABC", "XYZ"}
SEEDER_KEY == "key"
Port == "7447"

\* the answers the seeder gives to a completed challenge: the addresses,
\* separated by commas, in a buffer of 2048 bytes padded with NULs
NUL == "\\x00"
PeerBuffers ==
  {<<"1.1.1.1", ",", "2.2.2.2", NUL, NUL>>, <<"1.1.1.1", NUL, NUL>>, <<NUL, NUL>>}

\* bytes.Trim(buf, "\x00"): the NULs at both ends are cut
RECURSIVE TrimLeft(_)
TrimLeft(buf) ==
  IF buf # <<>> /\ Head(buf) = NUL THEN TrimLeft(Tail(buf)) ELSE buf

RECURSIVE TrimRight(_)
TrimRight(buf) ==
  IF buf # <<>> /\ buf[Len(buf)] = NUL
  THEN TrimRight(SubSeq(buf, 1, Len(buf) - 1)) ELSE buf

Trim(buf) == TrimRight(TrimLeft(buf))

\* strings.Split(s, ","): the pieces between the commas; the empty string
\* gives one empty piece
RECURSIVE Split(_, _)
Split(s, piece) ==
  IF s = <<>> THEN <<piece>>
  ELSE IF Head(s) = "," THEN <<piece>> \o Split(Tail(s), "")
  ELSE Split(Tail(s), Head(s))

\* the response of completeChallenge: the upper-case hex SHA-256 of the
\* generated string and the key, a comma, the port, a newline
Response(generated) ==
  [hash |-> <<generated, SEEDER_KEY>>, port |-> Port]

NoResponse == [hash |-> <<"", "">>, port |-> ""]

\* a read or write made on the connection and whether it succeeded
Op(op, ok) == [op |-> op, ok |-> ok]

\* the configuration ConnectToVoucher finds
VoucherConfig ==
  /\ network \in {"testnet", "mainnet"}
  /\ fixedNetwork \in BOOLEAN
  /\ seeders \in BOOLEAN
  /\ vPc = "start"
  /\ wire = <<>>
  /\ challenge = ""
  /\ response = NoResponse
  /\ pinger = "not started"
  /\ voucherRet = <<"running">>

\* ConnectToVoucher up to the first read: the fixed network, the seeder
\* addresses and net.Dial
Dial(dialOk) ==
  /\ vPc = "start"
  /\ IF network = "testnet" /\ fixedNetwork
     THEN vPc' = "returned" /\ voucherRet' = <<"fixed network">>
     ELSE IF ~seeders
     THEN vPc' = "returned" /\ voucherRet' = <<"nil">>
     ELSE IF ~dialOk
     THEN vPc' = "panic" /\ UNCHANGED voucherRet
     ELSE vPc' = "challenge" /\ UNCHANGED voucherRet
  /\ UNCHANGED <<network, fixedNetwork, seeders, wire, challenge, response, pinger>>

\* completeChallenge: the read of the challenge
ReadChallenge(ok, generated) ==
  /\ vPc = "challenge"
  /\ wire' = Append(wire, Op("read challenge", ok))
  /\ IF ok
     THEN vPc' = "response" /\ challenge' = generated
     ELSE vPc' = "panic" /\ UNCHANGED challenge
  /\ UNCHANGED <<network, fixedNetwork, seeders, response, pinger, voucherRet>>

\* completeChallenge: the write of the response
WriteResponse(ok) ==
  /\ vPc = "response"
  /\ wire' = Append(wire, Op("write response", ok))
  /\ response' = Response(challenge)
  /\ vPc' = IF ok THEN "peers" ELSE "panic"
  /\ UNCHANGED <<network, fixedNetwork, seeders, challenge, pinger, voucherRet>>

\* the read of the peer list that starts the ping loop whatever it returned
ReadPeersAlwaysPings(ok, buf) ==
  /\ vPc = "peers"
  /\ wire' = Append(wire, Op("read peers", ok))
  /\ vPc' = "returned"
  /\ pinger' = "sleeping"
  /\ voucherRet' = IF ok THEN Split(Trim(buf), "") ELSE <<"nil">>
  /\ UNCHANGED <<network, fixedNetwork, seeders, challenge, response>>

\* the read of the peer list, the start of the ping loop and the return
ReadPeers(ok, buf) ==
  /\ vPc = "peers"
  /\ wire' = Append(wire, Op("read peers", ok))
  /\ vPc' = "returned"
  /\ IF ok
     THEN /\ pinger' = "sleeping"
          /\ voucherRet' = Split(Trim(buf), "")
     ELSE /\ voucherRet' = <<"nil">>
          /\ UNCHANGED pinger
  /\ UNCHANGED <<network, fixedNetwork, seeders, challenge, response>>

Keepalives == Len(SelectSeq(wire, LAMBDA o : o.op = "keepalive"))

\* one turn of the ping loop: the sleep and the write of the byte 1
Ping(ok) ==
  /\ pinger = "sleeping"
  /\ Keepalives < MaxKeepalives
  /\ wire' = Append(wire, Op("keepalive", ok))
  /\ pinger' = IF ok THEN "sleeping" ELSE "returned"
  /\ UNCHANGED <<network, fixedNetwork, seeders, vPc, challenge, response,
                 voucherRet>>

NextVoucher ==
  \/ UNCHANGED otherThanVoucher /\ \E dialOk \in BOOLEAN : Dial(dialOk)
  \/ UNCHANGED otherThanVoucher /\ \E ok \in BOOLEAN, generated \in Challenges :
       ReadChallenge(ok, generated)
  \/ UNCHANGED otherThanVoucher /\ \E ok \in BOOLEAN : WriteResponse(ok)
  \/ UNCHANGED otherThanVoucher /\ \E ok \in BOOLEAN, buf \in PeerBuffers :
       ReadPeers(ok, buf)
  \/ UNCHANGED otherThanVoucher /\ \E ok \in BOOLEAN : Ping(ok)


\* ------------------------------------------------------------------------
\* Reduction committee: IsMember
\* ------------------------------------------------------------------------
\* uint8 arithmetic
Uint8(n) == n % 256

NotPregenerated == [startingStep |-> 0 - 1, amount |-> 0]

\* newReductionCommittee, and the lists as some earlier use left them
newReductionCommittee ==
  /\ committees \in 0..MaxCommittees
  /\ pregenerated = NotPregenerated
  /\ isMemberStep = 0
  /\ isMemberRet = "not called"

\* IsMember: Cache.PregenerateCommittees is asked for amount committees from
\* startingStep on; the list r.committees is a field of reductionCommittee
\* that the method of the embedded Cache does not assign, so the index is
\* taken in the list as it was before the call
reductionCommitteeIsMember(step) ==
  LET startingStep == Uint8(committees)
      amount == Uint8(Uint8(step - startingStep) + 8)
      fills == step > committees
  IN /\ isMemberStep' = step
     /\ pregenerated' = IF fills
                        THEN [startingStep |-> startingStep, amount |-> amount]
                        ELSE NotPregenerated
     /\ isMemberRet' = IF Uint8(step - 1) + 1 <= committees
                       THEN "looked up"
                       ELSE "panic: index out of range"
     /\ UNCHANGED committees

NextReducers ==
  UNCHANGED otherThanReducers /\ \E step \in 1..255 : reductionCommitteeIsMember(step)


\* ------------------------------------------------------------------------
\* Peer: concurrent calls of Disconnect
\* ------------------------------------------------------------------------
\* the goroutines that call Disconnect: StartProtocol, ReadLoop, the function
\* of the idle timer and WriteLoop
Disconnectors == {"StartProtocol", "ReadLoop", "idleTimer", "WriteLoop"}

\* the peer after the handshake, no goroutine in Disconnect
Connected ==
  /\ disconnectPc = [g \in Disconnectors |-> "running"]
  /\ disconnectedFlag = 0
  /\ detectorQuits = 0
  /\ quitchCloses = 0
  /\ connCloses = 0
  /\ closePanic = FALSE

\* a goroutine calls Disconnect: atomic.LoadInt32(&p.Disconnected) and the
\* return if the peer is disconnected already
DisconnectLoad(g) ==
  /\ ~closePanic
  /\ disconnectPc[g] = "running"
  /\ disconnectPc' = [disconnectPc EXCEPT
                        ![g] = IF disconnectedFlag # 0 THEN "returned" ELSE "AddInt32"]
  /\ UNCHANGED <<disconnectedFlag, detectorQuits, quitchCloses, connCloses,
                 closePanic>>

\* atomic.AddInt32(&p.Disconnected, 1)
DisconnectAdd(g) ==
  /\ ~closePanic
  /\ disconnectPc[g] = "AddInt32"
  /\ disconnectedFlag' = disconnectedFlag + 1
  /\ disconnectPc' = [disconnectPc EXCEPT ![g] = "Detector.Quit"]
  /\ UNCHANGED <<detectorQuits, quitchCloses, connCloses, closePanic>>

\* p.Detector.Quit()
DisconnectQuitDetector(g) ==
  /\ ~closePanic
  /\ disconnectPc[g] = "Detector.Quit"
  /\ detectorQuits' = detectorQuits + 1
  /\ disconnectPc' = [disconnectPc EXCEPT ![g] = "close"]
  /\ UNCHANGED <<disconnectedFlag, quitchCloses, connCloses, closePanic>>

\* close(p.quitch): the close of a closed channel panics
DisconnectCloseQuitch(g) ==
  /\ ~closePanic
  /\ disconnectPc[g] = "close"
  /\ IF quitchCloses = 0
     THEN /\ quitchCloses' = 1
          /\ disconnectPc' = [disconnectPc EXCEPT ![g] = "Conn.Close"]
          /\ UNCHANGED closePanic
     ELSE /\ closePanic' = TRUE
          /\ quitchCloses' = quitchCloses + 1
          /\ disconnectPc' = [disconnectPc EXCEPT ![g] = "panic"]
  /\ UNCHANGED <<disconnectedFlag, detectorQuits, connCloses>>

\* p.Conn.Close() and the return
DisconnectCloseConn(g) ==
  /\ ~closePanic
  /\ disconnectPc[g] = "Conn.Close"
  /\ connCloses' = connCloses + 1
  /\ disconnectPc' = [disconnectPc EXCEPT ![g] = "returned"]
  /\ UNCHANGED <<disconnectedFlag, detectorQuits, quitchCloses, closePanic>>

NextDisconnect ==
  \/ UNCHANGED otherThanDisconnect /\ \E g \in Disconnectors : DisconnectLoad(g)
  \/ UNCHANGED otherThanDisconnect /\ \E g \in Disconnectors : DisconnectAdd(g)
  \/ UNCHANGED otherThanDisconnect /\ \E g \in Disconnectors : DisconnectQuitDetector(g)
  \/ UNCHANGED otherThanDisconnect /\ \E g \in Disconnectors : DisconnectCloseQuitch(g)
  \/ UNCHANGED otherThanDisconnect /\ \E g \in Disconnectors : DisconnectCloseConn(g)


\* ------------------------------------------------------------------------
\* Preprocessor registry
\* ------------------------------------------------------------------------
\* NewSafeProcessorRegistry: no entry for the topic, no call of Preprocess
NewSafeProcessorRegistry ==
  /\ mem = <<>>
  /\ regLen = 0
  /\ nextId = 1
  /\ rwLock = "free"
  /\ shiftAt = 0
  /\ prePc = "idle"
  /\ ppLen = 0
  /\ ppAlias = TRUE
  /\ ppOwn = <<>>
  /\ ppIdx = 0
  /\ applied = <<>>
  /\ snapshot = <<>>
  /\ preErr = FALSE

\* append to a slice of length n on the array a: in place while the capacity
\* allows, else on a new array of twice the capacity
AppendInPlace(a, n) == n < Len(a)

Grown(a, n, x) ==
  [i \in 1..(IF Len(a) = 0 THEN 1 ELSE 2 * Len(a)) |->
     IF i <= n THEN a[i] ELSE IF i = n + 1 THEN x ELSE 0]

\* Register(topic, preprocessor): the processor gets an id and is appended
\* to the slice of the topic, under the write lock
Register ==
  /\ rwLock = "free" /\ nextId <= MaxRegistered
  /\ nextId' = nextId + 1
  /\ regLen' = regLen + 1
  /\ IF AppendInPlace(mem, regLen)
     THEN /\ mem' = [mem EXCEPT ![regLen + 1] = nextId]
          /\ UNCHANGED <<ppAlias, ppOwn>>
     ELSE /\ mem' = Grown(mem, regLen, nextId)
          \* pp keeps the array the registry has left
          /\ ppAlias' = FALSE
          /\ ppOwn' = IF ppAlias THEN mem ELSE ppOwn
  /\ UNCHANGED <<rwLock, shiftAt, prePc, ppLen, ppIdx, applied, snapshot, preErr>>

\* the index of id in the slice, 0 if it is not there
IndexOf(id) ==
  IF \E i \in 1..regLen : mem[i] = id
  THEN CHOOSE i \in 1..regLen : mem[i] = id /\ \A j \in 1..(i - 1) : mem[j] # id
  ELSE 0

\* RemoveProcessor(topic, id) up to the append: the write lock and the
\* search; append(pprocs[:idx], pprocs[idx+1:]...) then moves the elements
\* behind idx one slot down in the same array
RemoveProcessor(id) ==
  /\ rwLock = "free" /\ regLen > 0
  /\ IF IndexOf(id) = 0
     THEN UNCHANGED <<rwLock, shiftAt, regLen>>
     ELSE IF IndexOf(id) = regLen
     THEN regLen' = regLen - 1 /\ UNCHANGED <<rwLock, shiftAt>>
     ELSE rwLock' = "RemoveProcessor" /\ shiftAt' = IndexOf(id) /\ UNCHANGED regLen
  /\ UNCHANGED <<mem, nextId, prePc, ppLen, ppAlias, ppOwn, ppIdx, applied,
                 snapshot, preErr>>

\* one element moved by the append of RemoveProcessor; after the last one the
\* shorter slice is stored and the lock released
RemoveProcessorMove ==
  /\ rwLock = "RemoveProcessor"
  /\ mem' = [mem EXCEPT ![shiftAt] = mem[shiftAt + 1]]
  /\ IF shiftAt + 1 = regLen
     THEN regLen' = regLen - 1 /\ shiftAt' = 0 /\ rwLock' = "free"
     ELSE shiftAt' = shiftAt + 1 /\ UNCHANGED <<regLen, rwLock>>
  /\ UNCHANGED <<nextId, prePc, ppLen, ppAlias, ppOwn, ppIdx, applied, snapshot,
                 preErr>>

\* RemoveProcessors(topic): the entry of the topic is deleted
RemoveProcessors ==
  /\ rwLock = "free" /\ mem # <<>>
  /\ mem' = <<>>
  /\ regLen' = 0
  /\ ppAlias' = FALSE
  /\ ppOwn' = IF ppAlias THEN mem ELSE ppOwn
  /\ UNCHANGED <<nextId, rwLock, shiftAt, prePc, ppLen, ppIdx, applied, snapshot,
                 preErr>>

\* Preprocess up to the loop: pp := p.preprocessors[topic] under the read
\* lock, a slice on the registry's array
Preprocess ==
  /\ prePc = "idle" /\ rwLock = "free"
  /\ prePc' = "range"
  /\ ppLen' = regLen
  /\ ppAlias' = TRUE
  /\ ppOwn' = <<>>
  /\ ppIdx' = 0
  /\ applied' = <<>>
  /\ snapshot' = SubSeq(mem, 1, regLen)
  /\ preErr' = FALSE
  /\ UNCHANGED <<mem, regLen, nextId, rwLock, shiftAt>>

\* one turn of the loop of Preprocess over pp, without the lock
PreprocessProcess(ok) ==
  /\ prePc = "range" /\ ppIdx < ppLen
  /\ applied' = Append(applied, IF ppAlias THEN mem[ppIdx + 1] ELSE ppOwn[ppIdx + 1])
  /\ ppIdx' = ppIdx + 1
  /\ IF ok
     THEN UNCHANGED <<prePc, preErr>>
     ELSE prePc' = "idle" /\ preErr' = TRUE
  /\ UNCHANGED <<mem, regLen, nextId, rwLock, shiftAt, ppLen, ppAlias, ppOwn,
                 snapshot>>

\* the loop of Preprocess ends
PreprocessReturn ==
  /\ prePc = "range" /\ ppIdx = ppLen
  /\ prePc' = "idle"
  /\ UNCHANGED <<mem, regLen, nextId, rwLock, shiftAt, ppLen, ppAlias, ppOwn,
                 ppIdx, applied, snapshot, preErr>>

NextRegistry ==
  \/ UNCHANGED otherThanRegistry /\ Register
  \/ UNCHANGED otherThanRegistry /\ \E id \in 1..MaxRegistered : RemoveProcessor(id)
  \/ UNCHANGED otherThanRegistry /\ RemoveProcessorMove
  \/ UNCHANGED otherThanRegistry /\ RemoveProcessors
  \/ UNCHANGED otherThanRegistry /\ Preprocess
  \/ UNCHANGED otherThanRegistry /\ \E ok \in BOOLEAN : PreprocessProcess(ok)
  \/ UNCHANGED otherThanRegistry /\ PreprocessReturn

\* ------------------------------------------------------------------------
\* Specifications
\* ------------------------------------------------------------------------
\* the state of a component while another component's specification runs
IdleChain == prevBlock = Genesis /\ New
IdleQuorum == members = 0 /\ quorumRet = 0 - 1
IdleModerator == launch
IdleCollector == quorum = 1 /\ newSigSetCollector /\ collector.CurrentRound = 0
IdlePhase ==
  /\ amMember = FALSE /\ phQuorum = 1 /\ phQueue = <<>>
  /\ firstStepVotesMsg = [BlockHash |-> EmptyHash, StepVotes |-> {}]
  /\ Fn

IdlePeer == NewPeer

IdleListener == processors = FALSE /\ NewTopicListener

IdleCodec ==
  /\ certificate = [BRBatchedSig |-> <<0, 255>>, BRStep |-> 1, BRPubKeys |-> <<>>,
                    SRBatchedSig |-> <<0, 255>>, SRStep |-> 1, SRPubKeys |-> <<>>,
                    Hash |-> <<0>>]
  /\ NewCertificate

IdleGenerator == bidList = "bids" /\ newGenerator

IdleVoucher ==
  /\ network = "testnet" /\ fixedNetwork = TRUE /\ seeders = TRUE
  /\ VoucherConfig

IdleReducers == committees = 0 /\ newReductionCommittee

IdleDisconnect == Connected

IdleRegistry == NewSafeProcessorRegistry

InitChain ==
  /\ New
  /\ IdleQuorum
  /\ IdleModerator
  /\ IdleCollector
  /\ IdlePhase
  /\ IdlePeer
  /\ IdleListener
  /\ IdleCodec
  /\ IdleGenerator
  /\ IdleVoucher
  /\ IdleReducers
  /\ IdleDisconnect
  /\ IdleRegistry

InitQuorum ==
  /\ AnyProvisioners
  /\ IdleChain
  /\ IdleModerator
  /\ IdleCollector
  /\ IdlePhase
  /\ IdlePeer
  /\ IdleListener
  /\ IdleCodec
  /\ IdleGenerator
  /\ IdleVoucher
  /\ IdleReducers
  /\ IdleDisconnect
  /\ IdleRegistry

InitModerator ==
  /\ launch
  /\ IdleChain
  /\ IdleQuorum
  /\ IdleCollector
  /\ IdlePhase
  /\ IdlePeer
  /\ IdleListener
  /\ IdleCodec
  /\ IdleGenerator
  /\ IdleVoucher
  /\ IdleReducers
  /\ IdleDisconnect
  /\ IdleRegistry

InitCollector ==
  /\ newSigSetCollector
  /\ IdleChain
  /\ IdleQuorum
  /\ IdleModerator
  /\ IdlePhase
  /\ IdlePeer
  /\ IdleListener
  /\ IdleCodec
  /\ IdleGenerator
  /\ IdleVoucher
  /\ IdleReducers
  /\ IdleDisconnect
  /\ IdleRegistry

InitPhase ==
  /\ Fn
  /\ IdleChain
  /\ IdleQuorum
  /\ IdleModerator
  /\ IdleCollector
  /\ IdlePeer
  /\ IdleListener
  /\ IdleCodec
  /\ IdleGenerator
  /\ IdleVoucher
  /\ IdleReducers
  /\ IdleDisconnect
  /\ IdleRegistry

InitPeer ==
  /\ NewPeer
  /\ IdleChain
  /\ IdleQuorum
  /\ IdleModerator
  /\ IdleCollector
  /\ IdlePhase
  /\ IdleListener
  /\ IdleCodec
  /\ IdleGenerator
  /\ IdleVoucher
  /\ IdleReducers
  /\ IdleDisconnect
  /\ IdleRegistry

InitListener ==
  /\ NewTopicListener
  /\ IdleChain
  /\ IdleQuorum
  /\ IdleModerator
  /\ IdleCollector
  /\ IdlePhase
  /\ IdlePeer
  /\ IdleCodec
  /\ IdleGenerator
  /\ IdleVoucher
  /\ IdleReducers
  /\ IdleDisconnect
  /\ IdleRegistry

InitCodec ==
  /\ NewCertificate
  /\ IdleChain
  /\ IdleQuorum
  /\ IdleModerator
  /\ IdleCollector
  /\ IdlePhase
  /\ IdlePeer
  /\ IdleListener
  /\ IdleGenerator
  /\ IdleVoucher
  /\ IdleReducers
  /\ IdleDisconnect
  /\ IdleRegistry

InitGenerator ==
  /\ newGenerator
  /\ IdleChain
  /\ IdleQuorum
  /\ IdleModerator
  /\ IdleCollector
  /\ IdlePhase
  /\ IdlePeer
  /\ IdleListener
  /\ IdleCodec
  /\ IdleVoucher
  /\ IdleReducers
  /\ IdleDisconnect
  /\ IdleRegistry

InitVoucher ==
  /\ VoucherConfig
  /\ IdleChain
  /\ IdleQuorum
  /\ IdleModerator
  /\ IdleCollector
  /\ IdlePhase
  /\ IdlePeer
  /\ IdleListener
  /\ IdleCodec
  /\ IdleGenerator
  /\ IdleReducers
  /\ IdleDisconnect
  /\ IdleRegistry

InitReducers ==
  /\ newReductionCommittee
  /\ IdleChain
  /\ IdleQuorum
  /\ IdleModerator
  /\ IdleCollector
  /\ IdlePhase
  /\ IdlePeer
  /\ IdleListener
  /\ IdleCodec
  /\ IdleGenerator
  /\ IdleVoucher
  /\ IdleDisconnect
  /\ IdleRegistry

InitDisconnect ==
  /\ Connected
  /\ IdleChain
  /\ IdleQuorum
  /\ IdleModerator
  /\ IdleCollector
  /\ IdlePhase
  /\ IdlePeer
  /\ IdleListener
  /\ IdleCodec
  /\ IdleGenerator
  /\ IdleVoucher
  /\ IdleReducers
  /\ IdleRegistry

InitRegistry ==
  /\ NewSafeProcessorRegistry
  /\ IdleChain
  /\ IdleQuorum
  /\ IdleModerator
  /\ IdleCollector
  /\ IdlePhase
  /\ IdlePeer
  /\ IdleListener
  /\ IdleCodec
  /\ IdleGenerator
  /\ IdleVoucher
  /\ IdleReducers
  /\ IdleDisconnect

SpecChain == InitChain /\ [][NextChain]_vars
SpecQuorum == InitQuorum /\ [][NextQuorum]_vars
SpecModerator == InitModerator /\ [][NextModerator]_vars
SpecCollector == InitCollector /\ [][NextCollector]_vars
SpecPhase == InitPhase /\ [][NextPhase]_vars
SpecPeer == InitPeer /\ [][NextPeer]_vars
SpecListener == InitListener /\ [][NextListener]_vars
SpecCodec == InitCodec /\ [][NextCodec]_vars
SpecGenerator == InitGenerator /\ [][NextGenerator]_vars
SpecVoucher == InitVoucher /\ [][NextVoucher]_vars
SpecReducers == InitReducers /\ [][NextReducers]_vars
SpecDisconnect == InitDisconnect /\ [][NextDisconnect]_vars
SpecRegistry == InitRegistry /\ [][NextRegistry]_vars
\* the select of Accept chooses at random among the ready channels, so a
\* quit message that waits is taken in the end
SpecListenerLive ==
  SpecListener /\ WF_vars(UNCHANGED otherThanListener /\ AcceptQuit)

\* ------------------------------------------------------------------------
\* Chain driver: properties
\* ------------------------------------------------------------------------
AcceptErrors == {"sanity", "certificate", "executor", "append"}

\* positions of the AcceptedBlock publications in the log
AcceptedAt == {i \in 1..Len(bus) : bus[i].topic = "AcceptedBlock"}
AcceptedIn(log) == SelectSeq(log, LAMBDA e : e.topic = "AcceptedBlock")

\* i < j are successive AcceptedBlock publications
Successive(i, j) ==
  /\ i \in AcceptedAt /\ j \in AcceptedAt /\ i < j
  /\ \A k \in AcceptedAt : ~(i < k /\ k < j)

\* C1: when AcceptBlock returns an error the provisioners, prevBlock and the
\* stored blocks are as before the call and no AcceptedBlock is published.
C1_FailedAcceptLeavesChainUnchanged ==
  [][ret' \in AcceptErrors =>
       /\ p' = p
       /\ prevBlock' = prevBlock
       /\ store' = store
       /\ AcceptedIn(bus') = AcceptedIn(bus)]_vars

\* C2: whenever an intermediate block exists its height is prevBlock.height + 1.
C2_IntermediateLinksToTip ==
  intermediateBlock # NilBlock => intermediateBlock.height = prevBlock.height + 1

\* the step in which handleCertificateMessage finalizes B and installs C
CertificateHandled ==
  /\ listenPc = "GetCandidate" /\ listenPc' = "idle"
  /\ ret' = "ok"

\* the goroutine of pending that this step ran
Ran(i) ==
  /\ i \in 1..Len(pending)
  /\ Len(pending') = Len(pending) - 1
  /\ pending' = SubSeq(pending, 1, i - 1) \o SubSeq(pending, i + 1, Len(pending))
  /\ Len(bus') = Len(bus) + 1

\* C3: handling the certificate of candidate C at h+1 while B at h is the
\* intermediate block appends the stamped B to storage, makes C the intermediate
\* block, and the round update it sets off is published with round h+2.
C3_CertificateFinalizesAndUpdatesRound ==
  [][/\ (CertificateHandled /\ intermediateBlock'.height = intermediateBlock.height + 1) =>
          /\ store' = Append(store, [intermediateBlock EXCEPT !.cert = ValidCert])
          /\ intermediateBlock'.hash = listenHash
          /\ Len(pending') = Len(pending) + 1
          /\ pending'[Len(pending')].installed = intermediateBlock.height + 1
     /\ \A i \in 1..Len(pending) :
          (/\ Ran(i)
           /\ pending[i].origin = "certificate"
           /\ pending[i].installed = bus[pending[i].cause].val + 1) =>
             /\ bus'[Len(bus')].topic = "RoundUpdate"
             /\ bus'[Len(bus')].val = bus[pending[i].cause].val + 2]_vars

RebuiltBetween(i, j) ==
  \E k \in (i + 1)..(j - 1) : bus[k] = StopConsensus("RebuildChain")

C5_SingleSerializationOrder ==
  [][/\ ~(listenPc' # "idle" /\ cbPc' # "idle")
     /\ (intermediateBlock' # intermediateBlock \/ lastCertificate' # lastCertificate)
          => listenPc' # listenPc]_vars

\* the handling of a certificate message and of a peer block never overlap
C5_HandlersNeverOverlap == ~(listenPc # "idle" /\ cbPc # "idle")

\* only a step of the Listen loop writes the intermediate block or the last
\* certificate
C5_OnlyListenWrites ==
  [][(intermediateBlock' # intermediateBlock \/ lastCertificate' # lastCertificate)
          => listenPc' # listenPc]_vars

\* the part of C3 about the step of handleCertificateMessage
C3_HandlerStep ==
  [][(CertificateHandled /\ intermediateBlock'.height = intermediateBlock.height + 1) =>
          /\ store' = Append(store, [intermediateBlock EXCEPT !.cert = ValidCert])
          /\ intermediateBlock'.hash = listenHash
          /\ Len(pending') = Len(pending) + 1
          /\ pending'[Len(pending')].installed = intermediateBlock.height + 1]_vars

\* C6: a RoundUpdate set off by a block acceptance comes later in the log than
\* the AcceptedBlock of that acceptance, and every round update still to be
\* published already has its AcceptedBlock in the log.
C6_RoundUpdateFollowsAcceptedBlock ==
  /\ \A i \in 1..Len(bus) :
       (bus[i].topic = "RoundUpdate" /\ bus[i].tag # 0) =>
          bus[i].tag < i /\ bus[i].tag \in AcceptedAt
  /\ \A g \in 1..Len(pending) : pending[g].cause \in AcceptedAt

C6_Witness ==
  \E i \in 1..Len(bus) : bus[i].topic = "RoundUpdate" /\ bus[i].tag \in AcceptedAt

\* ------------------------------------------------------------------------
\* Reduction committee: properties
\* ------------------------------------------------------------------------
\* the smallest integer that is at least three quarters of n
CeilThreeQuarters(n) == (3 * n + 3) \div 4

\* C7: for a committee of n = min(64, provisioners) in 1..64 members the quorum
\* returned is ceil(0.75 * n).
C7_QuorumIsCeiling ==
  (quorumRet # 0 - 1 /\ members >= 1) =>
     quorumRet = CeilThreeQuarters(size(members))

\* ------------------------------------------------------------------------
\* Reputation moderator: properties
\* ------------------------------------------------------------------------
\* the step handled an absentee notification for k
StruckIn(k) == handled'[k] = handled[k] + 1

C9_RoundUpdateResetsStrikes ==
  [][/\ roundChan' < roundChan => \A k \in Keys : strikes'[k] = 0
     /\ \A k \in Keys :
          /\ strikes'[k] = handled'[k]
          /\ (cleared'[k] > 0 /\ handled'[k] <= 2) => removeProvisioner'[k] = 0]_vars

C9_Witness ==
  \E k \in Keys :
    cleared[k] >= maxStrikes /\ handled[k] = 2 /\ removeProvisioner[k] = 0

\* ------------------------------------------------------------------------
\* Signature-set collector: properties
\* ------------------------------------------------------------------------
\* the events of a step in a list, each once, in the order of first arrival
RECURSIVE Distinct(_, _)
Distinct(events, st) ==
  IF events = <<>> THEN <<>>
  ELSE LET front == Distinct(SubSeq(events, 1, Len(events) - 1), st)
           last == events[Len(events)]
       IN IF last.Step = st /\ ~Contains(front, last)
          THEN Append(front, last) ELSE front

\* C10: an event of a member for a round above the current one is appended to
\* the events queued for its round and changes nothing else; and when a step
\* changes the round, the events queued for the new round are the events
\* counted for it, each once and in the order they were queued.
C10_FutureEventsQueuedThenReplayed ==
  [][/\ (collected'.Round > collector.CurrentRound /\ collected'.Sender # "pleb") =>
          collector' = [collector EXCEPT
                          !.futureRounds[collected'.Round] = Append(@, collected')]
     /\ collector'.CurrentRound # collector.CurrentRound =>
          \A st \in Steps :
            collector'.StepEventCollector[st] =
              Distinct(collector'.futureRounds[collector'.CurrentRound], st)]_vars

C10_Witness ==
  /\ collector.RoundChan # <<>>
  /\ \E i \in 1..Len(collector.futureRounds[collector.CurrentRound]) :
       LET ev == collector.futureRounds[collector.CurrentRound][i] IN
       Contains(collector.StepEventCollector[ev.Step], ev)

\* C11: for every round above the current one, the events queued for it are
\* at most as many as the quorum.
C11_FutureRoundsBoundedByQuorum ==
  \A r \in Rounds :
    r > collector.CurrentRound => Len(collector.futureRounds[r]) <= quorum

\* C12: an event of a round below the current one changes nothing of the
\* collector: the events stored per step, the queued events, the current
\* round, the repropagated events and the rounds sent on RoundChan.
C12_PastRoundEventDropped ==
  [][collected'.Round < collector.CurrentRound => collector' = collector]_vars

\* an event of a member for a round below the round the collector started in
C12_Witness ==
  /\ collected.Round < collector.CurrentRound
  /\ collected.Sender # "pleb"
  /\ collector.RoundChan = <<>>

\* the rounds from lo to hi, in order
RoundsFromTo(lo, hi) == [i \in 1..(hi - lo + 1) |-> lo + i - 1]

\* some step has, among the events queued for round r, as many different
\* events as the quorum asks for (and at least one)
QueuedReachQuorum(c, q, r) ==
  \E st \in Steps :
    /\ Len(Distinct(c.futureRounds[r], st)) >= q
    /\ Len(Distinct(c.futureRounds[r], st)) >= 1

Agreements == SelectSeq(phGossip, LAMBDA m : m.topic = "Agreement")
Reductions == SelectSeq(phGossip, LAMBDA m : m.topic = "Reduction")

\* the votes on some hash have reached the quorum
QuorumReached == \E h \in Hashes : Cardinality(aggregator[h]) >= phQuorum

\* C13: at most one Agreement is gossiped, and only by a member after the
\* votes on a non-empty hash reached the quorum in this step with a first-step
\* message that is not empty and not on the empty hash; its votes per step
\* are the first-step votes and then the votes of this step.
C13_AgreementOnceAndOnlyAtValidQuorum ==
  /\ Len(Agreements) <= 1
  /\ Agreements # <<>> =>
       LET a == Agreements[1] IN
       /\ phExit = "quorum"
       /\ amMember
       /\ Cardinality(aggregator[a.BlockHash]) >= phQuorum
       /\ a.BlockHash # EmptyHash /\ aggregator[a.BlockHash] # {}
       /\ firstStepVotesMsg.BlockHash # EmptyHash /\ firstStepVotesMsg.StepVotes # {}
       /\ a.VotesPerStep = <<firstStepVotesMsg.StepVotes, aggregator[a.BlockHash]>>

C13_Witness == Len(Agreements) = 1 /\ phPc = "done"

C15_CancelledPhaseReturnsSentinel ==
  (cancelled = "wait" /\ phPc = "done") =>
     /\ phRet = [fn |-> "nil", err |-> "nil"]
     /\ Agreements = <<>>
     /\ timeoutIncreases = 0

\* C16: a Reduction whose signature does not verify never ends the phase with
\* an error.
C16_BadSignatureIsTransient ==
  ~(phPc = "done" /\ phRet.err = "VerifySignature")

\* C17: before Run has sent the node's Reduction nothing is gossiped and no
\* vote is collected; once it is past that, a member has gossiped exactly one
\* Reduction, on the block hash of the first-step message and ahead of any
\* other message, and a node that is no member has gossiped none.
C17_OwnReductionFirst ==
  /\ phPc = "entry" => phGossip = <<>> /\ aggregator = NoVotes
  /\ (phPc # "entry" /\ phExit # "SendReduction") =>
       /\ Len(Reductions) = (IF amMember THEN 1 ELSE 0)
       /\ amMember =>
            /\ phGossip[1].topic = "Reduction"
            /\ phGossip[1].BlockHash = firstStepVotesMsg.BlockHash

C17_Witness ==
  /\ amMember /\ aggregator # NoVotes /\ Len(Reductions) = 1
  /\ firstStepVotesMsg.BlockHash # EmptyHash

\* C18: requestRoundResults ends its wait either on the timer, with the error
\* "request timeout", or on a response whose block passes the sanity check
\* against the tip, whose transactions pass state validation and whose
\* certificate verifies; a step that leaves it waiting returns nothing.
C18_FirstValidResponseReturned ==
  [][cbPc = "RoundResults" =>
       IF cbPc' = "idle"
       THEN \/ ret' = "request timeout"
            \/ /\ ret' = "results, valid transactions"
               /\ SanityCheckBlock(prevBlock, intermediateBlock')
               /\ CheckBlockCertificate(p, intermediateBlock')
       ELSE ret' = "none"]_vars

\* C19: when the wait of requestRoundResults ends with no response taken,
\* onAcceptBlock returns the error "request timeout", the intermediate block
\* and the last certificate stay as they were, no sendRoundUpdate is spawned
\* and nothing is published.
C19_TimeoutKeepsIntermediate ==
  [][(/\ cbPc = "RoundResults" /\ cbPc' = "idle"
      /\ ret' \notin {RoundResults(TRUE), RoundResults(FALSE)}) =>
       /\ ret' = "request timeout"
       /\ UNCHANGED <<intermediateBlock, lastCertificate, pending, bus>>]_vars

C19_Witness ==
  /\ ret = "request timeout" /\ cbPc = "idle"
  /\ ~IsSyncing(counter)
  /\ \E i \in 1..Len(bus) : bus[i].topic = "AcceptedBlock"
  /\ \A i \in 1..Len(pending) : pending[i].origin # "sync"

\* C20: a run of RebuildChain, which starts by publishing StopConsensus,
\* either is fatal or returns successfully with the store holding the genesis
\* block alone, prevBlock that genesis tip, the mocked first intermediate
\* block on it, the empty certificate, an empty provisioners registry and
\* the wallet database asked to clear; it never returns an error.
C20_RebuildResetsOrIsFatal ==
  [][(/\ Len(bus') = Len(bus) + 1
      /\ bus'[Len(bus')] = StopConsensus("RebuildChain")) =>
       \/ halted'
       \/ /\ ret' = "Blockchain deleted"
          /\ store' = <<Genesis>>
          /\ prevBlock' = Genesis
          /\ intermediateBlock' = mockFirstIntermediateBlock(Genesis)
          /\ lastCertificate' = EmptyCertificate
          /\ p' = NewProvisioners
          /\ mempool' = Ev("ClearWalletDatabase", 0, 0)]_vars

\* C26: a step in which onAcceptBlock ran AcceptBlock starts while the sync
\* counter says syncing and publishes StopConsensus first, before the
\* AcceptedBlock of a block that is accepted; while the node is not syncing,
\* nothing but the certificate handler and RebuildChain changes the tip, the
\* store or the provisioners, and no StopConsensus of onAcceptBlock appears.
C26_BlocksAcceptedOnlyWhileSyncing ==
  [][/\ (cbPc = "idle" /\ listenPc' = listenPc /\ ret' \in AcceptErrors \cup {"ok"}) =>
          /\ IsSyncing(counter)
          /\ Len(bus') > Len(bus)
          /\ bus'[Len(bus) + 1] = StopConsensus("onAcceptBlock")
          /\ IF ret' = "ok"
             THEN /\ Len(bus') = Len(bus) + 2
                  /\ bus'[Len(bus) + 2].topic = "AcceptedBlock"
             ELSE Len(bus') = Len(bus) + 1
     /\ (~IsSyncing(counter) /\ listenPc' = listenPc) =>
          /\ \A i \in (Len(bus) + 1)..Len(bus') :
               bus'[i] # StopConsensus("onAcceptBlock")
          /\ \/ <<prevBlock', store', p'>> = <<prevBlock, store, p>>
             \/ bus' = Append(bus, StopConsensus("RebuildChain"))]_vars

C26_Witness ==
  /\ ret = "ok" /\ Len(bus) >= 2
  /\ bus[Len(bus) - 1] = StopConsensus("onAcceptBlock")
  /\ bus[Len(bus)].topic = "AcceptedBlock"
  /\ ~IsSyncing(counter)

\* the Reductions of committee members among the events of a list
MemberReductions(events) ==
  SelectSeq(events, LAMBDA ev : ev.Category = "Reduction" /\ IsMember(ev.Sender))

\* C28: Run takes no event from the live channel while an event of the queue
\* has not been looked at, and once Run is past its loop over the queue, or
\* has returned from it, without the quorum having been reached, no Reduction
\* of a committee member is left in the queue without having been offered to
\* the aggregator.
C28_QueuedReductionsAllOffered ==
  /\ phPc = "wait" => phQueue = <<>>
  /\ (phPc = "done" /\ phExit \notin {"SendReduction", "quorum", "sendAgreement"}) =>
       MemberReductions(phQueue) = <<>>

\* C29: the votes the aggregator holds are votes of committee members only,
\* and a turn of either loop of Run in which handler.IsMember answered no
\* leaves the votes as they were, gossips nothing and does not end the phase.
C29_NonMemberNeverCounted ==
  /\ [](\A h \in Hashes : aggregator[h] \subseteq Committee)
  /\ [][isMember' = "no member" =>
          /\ aggregator' = aggregator
          /\ phGossip' = phGossip
          /\ phRet' = phRet /\ phExit' = phExit
          /\ phPc' # "done"]_vars

\* the Reduction of a sender outside the committee was looked at when one
\* more vote on some hash would have made the quorum
C29_Witness ==
  /\ isMember = "no member"
  /\ phPc \in {"drain", "wait"}
  /\ \E h \in Hashes : Cardinality(aggregator[h]) + 1 = phQuorum
  /\ aggregator # NoVotes

\* C30: once Run has returned after it started the timer, a receive from
\* timeoutChan was made by the select or left to a goroutine.
C30_TimeoutDrainedOnEveryExit ==
  (phPc = "done" /\ phExit # "SendReduction") => timeoutReceived

\* ------------------------------------------------------------------------
\* Properties of the peer read loop
\* ------------------------------------------------------------------------
\* C21: once ReadLoop has read all of a message the remote end sent and the
\* peer is still connected, the payload of the message was published under
\* its command if the magic is the configured one and the checksum matches,
\* and nothing was published otherwise.
C21_PublishedIffMagicAndChecksum ==
  (/\ sent # NoFrame /\ conn = <<>>
   /\ readPc = "readHeader" /\ Disconnected = 0) =>
     peerBus = IF Passes(sent)
                 THEN <<[topic |-> sent.header.Command, payload |-> sent.payload]>>
                 ELSE <<>>

\* C34: when the message sent before the last one failed the test of the
\* magic or of the checksum, the last one, if it passes both, is published
\* alone, under its command and with its payload, once ReadLoop has read
\* all that was sent.
C34_ValidMessageAfterDiscardPublished ==
  (/\ prevRejected /\ Passes(sent)
   /\ conn = <<>> /\ readPc = "readHeader" /\ Disconnected = 0) =>
     peerBus = <<[topic |-> sent.header.Command, payload |-> sent.payload]>>

\* ------------------------------------------------------------------------
\* Properties of the topic listener
\* ------------------------------------------------------------------------
IsPrefix(a, b) == Len(a) <= Len(b) /\ a = SubSeq(b, 1, Len(a))

\* the messages Accept has taken from msgChan
Taken == SubSeq(enqueued, 1, Len(enqueued) - Len(msgChan))

\* C22 as claimed: the buffers handed to the collector are, in publication
\* order and each once, the messages published while the channel was
\* subscribed and had room; all of them once Accept has nothing left to take.
C22_EveryMessageHandedOnceInOrder ==
  /\ IsPrefix(delivered, enqueued)
  /\ (msgChan = <<>> \/ accPc = "returned") => delivered = enqueued

\* C22 as amended: the buffers handed to the collector are, in publication
\* order and each once, the messages put on the channel that Accept has taken
\* from it and that no processor rejected; the others wait on the channel in
\* publication order.
C22_TakenMessagesHandedOnceInOrder ==
  /\ enqueued = Taken \o msgChan
  /\ delivered = SelectSeq(Taken, LAMBDA id : id \notin rejected)
  /\ \A i, j \in 1..Len(delivered) : i < j => delivered[i] < delivered[j]

C22_Witness ==
  /\ delivered # <<>>
  /\ rejected # {}
  /\ accPc = "returned" /\ msgChan # <<>>

\* C23: once quit was published Accept returns in the end; when it has
\* returned both channels are unsubscribed, and no buffer is handed to the
\* collector after that.
C23_QuitEndsAccept ==
  /\ quitPublished ~> (accPc = "returned")
  /\ [](accPc = "returned" => ~msgSubscribed /\ ~quitSubscribed)
  /\ [][accPc = "returned" => delivered' = delivered]_vars

C23_Witness ==
  /\ quitPublished /\ accPc = "returned" /\ delivered # <<>> /\ msgChan # <<>>

\* ------------------------------------------------------------------------
\* Properties of the certificate codec
\* ------------------------------------------------------------------------
\* C24: decoding the bytes Encode wrote for a certificate succeeds and gives
\* a certificate with the same signatures, steps, public keys in the same
\* order, and hash.
C24_CertificateRoundTrip ==
  codecPc = "decoded" =>
    /\ decoded.err = "nil"
    /\ decoded.c = certificate

C24_Witness ==
  /\ codecPc = "decoded"
  /\ decoded.c.BRPubKeys = <<<<5>>, <<5, 6>>>>
  /\ decoded.c.SRPubKeys = <<<<>>>>
  /\ decoded.c.BRStep = 256
  /\ decoded.c.Hash = <<9>>

\* ------------------------------------------------------------------------
\* Properties of the score generator
\* ------------------------------------------------------------------------
\* C25: when updateRound starts, the round becomes the round of the update
\* and the step 1, with nothing published; when its proof generation has
\* failed it publishes nothing, leaves the step alone (at 1 unless Collect
\* wrote it meanwhile) and Listen is back at its select; otherwise it
\* publishes at most one message, on Gossip, tagged Score, for that round.
C25_RoundUpdateSendsOneScore ==
  [][/\ (listenSt = "select" /\ listenSt' = "proving") =>
          /\ currentRound' = Head(roundChannel)
          /\ currentStep' = 1
          /\ genGossip' = genGossip
     /\ (listenSt = "proving" /\ listenSt' # "proving") =>
          /\ \/ genGossip' = genGossip
             \/ \E st \in 0..255 :
                  genGossip' = Append(genGossip,
                    [topic |-> "Gossip", tag |-> "Score",
                     Round |-> currentRound, Step |-> st])
          /\ genRet' = "proof" =>
               /\ genGossip' = genGossip
               /\ currentStep' = currentStep
               /\ ~stepTouched => currentStep' = 1
               /\ listenSt' = "select"
     /\ (listenSt = "incrementing" /\ listenSt' # "incrementing") =>
          genGossip' = genGossip /\ listenSt' = "select"]_vars

C25_Witness ==
  /\ genRet = "proof" /\ listenSt = "select"
  /\ currentStep = 1 /\ currentRound = 2
  /\ genGossip # <<>>
  /\ roundChannel # <<>>

\* ------------------------------------------------------------------------
\* Properties of the voucher client
\* ------------------------------------------------------------------------
\* the operation the handshake makes at a position of the connection's log
HandshakeOp(i) ==
  CASE i = 1 -> "read challenge"
    [] i = 2 -> "write response"
    [] i = 3 -> "read peers"
    [] OTHER -> "keepalive"

\* C31: the reads and writes on the connection are the read of the challenge,
\* the write of the response, the read of the peer list and then keepalives,
\* in this order; none is made after one that failed, so keepalives follow a
\* successful read of the peer list only and none follows a failed keepalive;
\* and after a failed read of the peer list ConnectToVoucher returns no peers
\* and the ping loop is never started.
C31_HandshakeOrder ==
  /\ \A i \in 1..Len(wire) :
       /\ wire[i].op = HandshakeOp(i)
       /\ i < Len(wire) => wire[i].ok
  /\ (Len(wire) >= 3 /\ ~wire[3].ok) =>
       /\ voucherRet = <<"nil">>
       /\ pinger = "not started"
  /\ pinger # "not started" => (Len(wire) >= 3 /\ wire[3].ok)

\* a keepalive failed after one that succeeded, with room for more
C31_Witness ==
  /\ Len(wire) = 5
  /\ wire[4].ok /\ ~wire[5].ok
  /\ Keepalives < MaxKeepalives
  /\ pinger = "returned"

\* ------------------------------------------------------------------------
\* Properties of IsMember of the reduction committee
\* ------------------------------------------------------------------------
\* C32: a call of IsMember for a step in 1..255 takes the committee of the
\* step from inside the list of committees, and when the step is beyond the
\* list the committees it asks the Cache to generate reach the step.
C32_IsMemberLooksUpGeneratedCommittee ==
  isMemberRet # "not called" =>
     /\ isMemberRet = "looked up"
     /\ pregenerated # NotPregenerated =>
          pregenerated.startingStep + pregenerated.amount >= isMemberStep

\* ------------------------------------------------------------------------
\* Properties of the concurrent calls of Disconnect
\* ------------------------------------------------------------------------
\* C33: however the calls of Disconnect interleave, quitch is never closed a
\* second time, and once every caller has returned quitch was closed once and
\* the peer is disconnected.
C33_QuitchClosedExactlyOnce ==
  /\ quitchCloses <= 1
  /\ ~closePanic
  /\ (\A g \in Disconnectors : disconnectPc[g] = "returned") =>
       (quitchCloses = 1 /\ disconnectedFlag # 0)

\* ------------------------------------------------------------------------
\* Properties of the preprocessor registry
\* ------------------------------------------------------------------------
\* C35: the processors a call of Preprocess has applied are the first ones of
\* those registered when it took its slice, in their order, and all of them
\* once the call has returned without an error.
C35_PreprocessAppliesSnapshot ==
  /\ IsPrefix(applied, snapshot)
  /\ (prePc = "idle" /\ ~preErr) => applied = snapshot

\* C36: sendRoundUpdate never runs while the chain has no intermediate block:
\* whenever an Initialization message or a spawned round update makes it run,
\* the intermediate block is set.
C36_RoundUpdateHasIntermediateBlock ==
  [][(onInitialization \/ \E i \in 1..Len(pending) : sendRoundUpdate(i))
       => intermediateBlock # NilBlock]_vars

\* the step in which onAcceptBlock installs the round results that end a sync
SyncCompleted ==
  /\ cbPc = "RoundResults" /\ cbPc' = "idle"
  /\ ret' \in {RoundResults(TRUE), RoundResults(FALSE)}

\* positions in a log of the RoundUpdates published by spawned goroutines
SpawnedUpdatesAt(log) ==
  {i \in 1..Len(log) : log[i].topic = "RoundUpdate" /\ log[i].tag # 0}

\* C37: each successful certificate handling or completed sync spawns exactly
\* one round update; the RoundUpdate a spawned goroutine publishes has the
\* height of the intermediate block installed by its handler plus 1 as round,
\* and the rounds of the RoundUpdates so published are strictly increasing.
C37_OneRoundUpdatePerHandling ==
  [][/\ (CertificateHandled \/ SyncCompleted) =>
          /\ Len(pending') = Len(pending) + 1
          /\ pending'[Len(pending')].installed = intermediateBlock'.height
     /\ \A i \in 1..Len(pending) :
          Ran(i) => bus'[Len(bus')].val = pending[i].installed + 1
     /\ \A i, j \in SpawnedUpdatesAt(bus') :
          i < j => bus'[i].val < bus'[j].val]_vars

\* the step in which handleCertificateMessage returns without installing
\* the candidate
CertificateHandlingFailed ==
  /\ listenPc = "GetCandidate" /\ listenPc' = "idle"
  /\ ret' # "ok"

\* C38: handleCertificateMessage updates the last certificate, the last
\* committee and the intermediate block together or not at all: the step in
\* which a handling fails changes none of them (nor the certificate on the
\* intermediate block), and a step of the Listen loop that writes the last
\* certificate or the last committee is the one that installs the candidate.
C38_CertificateStateUpdatedTogether ==
  [][/\ CertificateHandlingFailed =>
          UNCHANGED <<lastCertificate, lastCommittee, intermediateBlock>>
     /\ (/\ listenPc' # listenPc
         /\ <<lastCertificate, lastCommittee>>' # <<lastCertificate, lastCommittee>>)
          => CertificateHandled]_vars

\* the part of C38 about the step in which a handling fails
C38_FailedHandlingStep ==
  [][CertificateHandlingFailed =>
          UNCHANGED <<lastCertificate, lastCommittee, intermediateBlock>>]_vars

\* C39: between two consecutive round updates the moderator publishes at most
\* one removal request for any pubkey, however many absentee notifications
\* for it are handled.
C39_OneRemovalPerKeyAndRound ==
  \A k \in Keys : removeProvisioner[k] <= 1

\* C40: an absentee notification published before a round update is never
\* counted toward the strikes of the round that starts with that update: when
\* a notification is counted, every round update published after it is still
\* waiting in roundChan.
C40_EarlierAbsenteeNotCountedInNewRound ==
  [][Len(absenteeChan') < Len(absenteeChan) => Head(updatesSince) <= roundChan]_vars

====
